---- MODULE Spec2Model ----
(***************************************************************************)
(* Battle engine of the Pokemon battle game: the battleReducer state       *)
(* machine, the BattleProvider entry points with their timers and effects, *)
(* the roster store they write to, and the guards of the battle page and   *)
(* of the battle controls that decide which entry point a player can       *)
(* reach in which state.                                                   *)
(*                                                                         *)
(* Time is counted in ticks of 500 ms: setTimeout(.., 1000) is 2 ticks,    *)
(* 1500 is 3 ticks, 3000 is 6 ticks.                                       *)
(*                                                                         *)
(* Absent values: a number that the code only tests for truthiness is 0    *)
(* when absent (0 and undefined are both falsy), a string is "", an        *)
(* object is Null.                                                         *)
(***************************************************************************)
EXTENDS Integers, Sequences, FiniteSets, TLC

\* ------------------------------------------------------------------ bounds
\* commands of the player (attack, item, switch, run) and direct calls of an
\* entry point in one run
MaxActions == 2

\* ---------------------------------------------------------------- helpers
Null == [isNull |-> TRUE]

Max(a, b) == IF a >= b THEN a ELSE b

Min(a, b) == IF a <= b THEN a ELSE b

\* a || b on numbers
OrNum(a, b) == IF a # 0 THEN a ELSE b

\* a || b on strings
OrStr(a, b) == IF a # "" THEN a ELSE b

\* String.prototype.toLowerCase on the strings that occur as types or names
ToLowerCase(s) ==
  CASE s = "Pikachu" -> "pikachu"
    [] s = "Zubat" -> "zubat"
    [] s = "Rattata" -> "rattata"
    [] s = "Gastly" -> "gastly"
    [] s = "Fire" -> "fire"
    [] s = "GRASS" -> "grass"
    [] s = "Normal" -> "normal"
    [] s = "Ghost" -> "ghost"
    [] OTHER -> s

\* name.charAt(0).toUpperCase() + name.slice(1).toLowerCase()
Capitalize(s) ==
  CASE ToLowerCase(s) = "pikachu" -> "Pikachu"
    [] ToLowerCase(s) = "zubat" -> "Zubat"
    [] ToLowerCase(s) = "rattata" -> "Rattata"
    [] ToLowerCase(s) = "gastly" -> "Gastly"
    [] OTHER -> s

\* one line of the battle log: a message kind with its string and number
Msg(t, a, n) == [t |-> t, a |-> a, b |-> "", n |-> n]

\* a log line built from two names: "<a> used <b>!"
Msg2(t, a, b) == [t |-> t, a |-> a, b |-> b, n |-> 0]

\* --------------------------------------------- timer durations, in ms
\* attack(): ATTACK_COMPLETE after the animation
AttackDelay == 1000
\* useItem(): ENEMY_ATTACK after the item
ItemDelay == 1500
\* enemy-turn effect: ENEMY_ATTACK
EnemyTurnDelay == 1000
\* enemy-turn effect: ENEMY_ATTACK_COMPLETE after ENEMY_ATTACK
EnemyCompleteDelay == 1000
\* flee(): BATTLE_END
FleeDelay == 1000
\* Battle page: endBattle() and navigation after Victory or Defeat
PageEndDelay == 3000

\* ------------------------------------------------------------ BATTLE_STATES
BATTLE_STATES ==
  [IDLE |-> "idle", STARTING |-> "starting", SELECT_POKEMON |-> "selectPokemon",
   PLAYER_TURN |-> "playerTurn", SELECTING_MOVE |-> "selectingMove",
   ATTACKING |-> "attacking", ENEMY_TURN |-> "enemyTurn", VICTORY |-> "victory",
   DEFEAT |-> "defeat", FLEEING |-> "fleeing", USING_ITEM |-> "usingItem",
   CHANGING_POKEMON |-> "changingPokemon", USE_ITEM |-> "useItem"]

\* ------------------------------------------------------ type effectiveness
\* typeChart with every multiplier doubled (0, 1, 2, 4 for 0, 0.5, 1, 2)
typeChart ==
  [normal |-> [rock |-> 1, ghost |-> 0, steel |-> 1],
   fire |-> [fire |-> 1, water |-> 1, grass |-> 4, ice |-> 4, bug |-> 4,
             rock |-> 1, dragon |-> 1, steel |-> 4],
   water |-> [fire |-> 4, water |-> 1, grass |-> 1, ground |-> 4, rock |-> 4,
              dragon |-> 1],
   grass |-> [fire |-> 1, water |-> 4, grass |-> 1, poison |-> 1, ground |-> 4,
              flying |-> 1, bug |-> 1, rock |-> 4, dragon |-> 1, steel |-> 1],
   electric |-> [water |-> 4, electric |-> 1, grass |-> 1, ground |-> 0,
                 flying |-> 4, dragon |-> 1],
   ice |-> [fire |-> 1, water |-> 1, grass |-> 4, ice |-> 1, ground |-> 4,
            flying |-> 4, dragon |-> 4, steel |-> 1],
   fighting |-> [normal |-> 4, ice |-> 4, poison |-> 1, flying |-> 1,
                 psychic |-> 1, bug |-> 1, rock |-> 4, ghost |-> 0, dark |-> 4,
                 steel |-> 4, fairy |-> 1],
   poison |-> [grass |-> 4, poison |-> 1, ground |-> 1, rock |-> 1, ghost |-> 1,
               steel |-> 0, fairy |-> 4],
   ground |-> [fire |-> 4, electric |-> 4, grass |-> 1, poison |-> 4,
               flying |-> 0, bug |-> 1, rock |-> 4, steel |-> 4],
   flying |-> [electric |-> 1, grass |-> 4, fighting |-> 4, bug |-> 4,
               rock |-> 1, steel |-> 1],
   psychic |-> [fighting |-> 4, poison |-> 4, psychic |-> 1, dark |-> 0,
                steel |-> 1],
   bug |-> [fire |-> 1, grass |-> 4, fighting |-> 1, poison |-> 1, flying |-> 1,
            psychic |-> 4, ghost |-> 1, dark |-> 4, steel |-> 1, fairy |-> 1],
   rock |-> [fire |-> 4, ice |-> 4, fighting |-> 1, ground |-> 1, flying |-> 4,
             bug |-> 4, steel |-> 1],
   ghost |-> [normal |-> 0, psychic |-> 4, ghost |-> 4, dark |-> 1],
   dragon |-> [dragon |-> 4, steel |-> 1, fairy |-> 0],
   dark |-> [fighting |-> 1, psychic |-> 4, ghost |-> 4, dark |-> 1,
             fairy |-> 1],
   steel |-> [fire |-> 1, water |-> 1, electric |-> 1, ice |-> 4, rock |-> 4,
              steel |-> 1, fairy |-> 4],
   fairy |-> [fighting |-> 4, poison |-> 1, bug |-> 2, dragon |-> 4, dark |-> 4,
              steel |-> 1]]

\* getTypeEffectiveness, doubled: 2 is the neutral multiplier 1
\* the entry of chart for attack against defender, 2 where there is none
ChartEntry(chart, attack, defender) ==
  IF attack \in DOMAIN chart
  THEN IF defender \in DOMAIN chart[attack] THEN chart[attack][defender] ELSE 2
  ELSE 2

\* getTypeEffectiveness with the two toLowerCase() calls left out
getTypeEffectivenessCaseSensitive(attackType, defenderType) ==
  IF attackType = "" \/ defenderType = "" THEN 2
  ELSE ChartEntry(typeChart, attackType, defenderType)

getTypeEffectiveness(attackType, defenderType) ==
  IF attackType = "" \/ defenderType = "" THEN 2
  ELSE ChartEntry(typeChart, ToLowerCase(attackType),
                  ToLowerCase(defenderType))

\* ------------------------------------------------------------------ moves
movesByType ==
  [normal |-> [name |-> "Tackle", power |-> 40],
   fire |-> [name |-> "Ember", power |-> 40],
   water |-> [name |-> "Water Gun", power |-> 40],
   grass |-> [name |-> "Vine Whip", power |-> 45],
   electric |-> [name |-> "Thunder Shock", power |-> 40],
   ice |-> [name |-> "Ice Shard", power |-> 40],
   fighting |-> [name |-> "Karate Chop", power |-> 50],
   poison |-> [name |-> "Poison Sting", power |-> 15],
   ground |-> [name |-> "Sand Attack", power |-> 20],
   flying |-> [name |-> "Gust", power |-> 40],
   psychic |-> [name |-> "Confusion", power |-> 50],
   bug |-> [name |-> "Bug Bite", power |-> 60],
   rock |-> [name |-> "Rock Throw", power |-> 50],
   ghost |-> [name |-> "Lick", power |-> 30],
   dragon |-> [name |-> "Dragon Rage", power |-> 40],
   dark |-> [name |-> "Bite", power |-> 60],
   steel |-> [name |-> "Metal Claw", power |-> 50],
   fairy |-> [name |-> "Fairy Wind", power |-> 40]]

\* generateDefaultMove(type, level): power is floor(move.power + level / 10)
generateDefaultMove(type, level) ==
  LET normalizedType == ToLowerCase(type)
      move == IF normalizedType \in DOMAIN movesByType
              THEN movesByType[normalizedType]
              ELSE movesByType["normal"]
  IN [name |-> move.name,
      power |-> move.power + (level \div 10),
      type |-> normalizedType]

\* generateDefaultMove(type, level, isEnemy) with level tiers at 5, 15 and
\* 30: the moves by type
scaledMovesByType ==
  [normal |-> [name |-> "Tackle", power |-> 45, enemyName |-> "Slam",
               enemyPower |-> 50],
   fire |-> [name |-> "Ember", power |-> 45, enemyName |-> "Flamethrower",
               enemyPower |-> 55],
   water |-> [name |-> "Water Gun", power |-> 45, enemyName |-> "Hydro Pump",
               enemyPower |-> 55],
   grass |-> [name |-> "Vine Whip", power |-> 50, enemyName |-> "Razor Leaf",
               enemyPower |-> 55],
   electric |-> [name |-> "Thunder Shock", power |-> 45, enemyName |-> "Thunderbolt",
               enemyPower |-> 55],
   ice |-> [name |-> "Ice Shard", power |-> 45, enemyName |-> "Ice Beam",
               enemyPower |-> 55],
   fighting |-> [name |-> "Karate Chop", power |-> 55, enemyName |-> "Cross Chop",
               enemyPower |-> 65],
   poison |-> [name |-> "Poison Sting", power |-> 40, enemyName |-> "Sludge Bomb",
               enemyPower |-> 50],
   ground |-> [name |-> "Sand Attack", power |-> 40, enemyName |-> "Earthquake",
               enemyPower |-> 60],
   flying |-> [name |-> "Gust", power |-> 45, enemyName |-> "Air Slash",
               enemyPower |-> 55],
   psychic |-> [name |-> "Confusion", power |-> 55, enemyName |-> "Psychic",
               enemyPower |-> 65],
   bug |-> [name |-> "Bug Bite", power |-> 65, enemyName |-> "X-Scissor",
               enemyPower |-> 70],
   rock |-> [name |-> "Rock Throw", power |-> 55, enemyName |-> "Rock Slide",
               enemyPower |-> 65],
   ghost |-> [name |-> "Lick", power |-> 40, enemyName |-> "Shadow Ball",
               enemyPower |-> 55],
   dragon |-> [name |-> "Dragon Rage", power |-> 45, enemyName |-> "Dragon Claw",
               enemyPower |-> 60],
   dark |-> [name |-> "Bite", power |-> 65, enemyName |-> "Crunch",
               enemyPower |-> 70],
   steel |-> [name |-> "Metal Claw", power |-> 55, enemyName |-> "Iron Head",
               enemyPower |-> 65],
   fairy |-> [name |-> "Fairy Wind", power |-> 45, enemyName |-> "Dazzling Gleam",
               enemyPower |-> 55]]

\* the multiplier of the level tier, in hundredths
ScaledMultiplier(level, isEnemy) ==
  IF level <= 5 THEN 100 + level * (IF isEnemy THEN 5 ELSE 4)
  ELSE IF level <= 15 THEN 115 + (level - 5) * (IF isEnemy THEN 6 ELSE 5)
  ELSE IF level <= 30 THEN 155 + (level - 15) * (IF isEnemy THEN 7 ELSE 6)
  ELSE 230 + (level - 30) * (IF isEnemy THEN 5 ELSE 4)

\* the boost of 20% for an opponent from level 25 and of 5% to 15% for the
\* player's creature from level 10
ScaledBoost(scaledPower, level, isEnemy) ==
  IF isEnemy /\ level >= 25 THEN (scaledPower * 12) \div 10
  ELSE IF ~isEnemy /\ level >= 10
  THEN (scaledPower * (100 + Min(15, 5 + (level - 10)))) \div 100
  ELSE scaledPower

\* generateDefaultMove(type, level, isEnemy) with level tiers at 5, 15 and 30;
\* the products are exact here, while the double product of the code can fall
\* just below a whole number and give a power lower by one
generateDefaultMoveScaled(type, level, isEnemy) ==
  LET normalizedType == ToLowerCase(type)
      move == IF normalizedType \in DOMAIN scaledMovesByType
              THEN scaledMovesByType[normalizedType]
              ELSE scaledMovesByType["normal"]
      basePower == IF isEnemy THEN move.enemyPower ELSE move.power
  IN [name |-> IF isEnemy THEN move.enemyName ELSE move.name,
      power |-> ScaledBoost((basePower * ScaledMultiplier(level, isEnemy))
                              \div 100, level, isEnemy),
      type |-> normalizedType]

\* generateDefaultMove(type, level, isEnemy) with level tiers at 10, 25 and
\* 40: the moves by type
tieredMovesByType ==
  [normal |-> [name |-> "Tackle", basePower |-> 45],
   fire |-> [name |-> "Ember", basePower |-> 50],
   water |-> [name |-> "Water Gun", basePower |-> 50],
   grass |-> [name |-> "Vine Whip", basePower |-> 50],
   electric |-> [name |-> "Thunder Shock", basePower |-> 50],
   ice |-> [name |-> "Ice Shard", basePower |-> 50],
   fighting |-> [name |-> "Karate Chop", basePower |-> 55],
   poison |-> [name |-> "Poison Sting", basePower |-> 45],
   ground |-> [name |-> "Sand Attack", basePower |-> 45],
   flying |-> [name |-> "Gust", basePower |-> 50],
   psychic |-> [name |-> "Confusion", basePower |-> 55],
   bug |-> [name |-> "Bug Bite", basePower |-> 45],
   rock |-> [name |-> "Rock Throw", basePower |-> 55],
   ghost |-> [name |-> "Shadow Ball", basePower |-> 55],
   dragon |-> [name |-> "Dragon Rage", basePower |-> 65],
   dark |-> [name |-> "Bite", basePower |-> 50],
   steel |-> [name |-> "Metal Claw", basePower |-> 55],
   fairy |-> [name |-> "Fairy Wind", basePower |-> 50]]

\* the powerMultiplier of the level tier, in hundredths
TieredMultiplier(level) ==
  IF level <= 10 THEN 100 + level * 7
  ELSE IF level <= 25 THEN 170 + (level - 10) * 9
  ELSE IF level <= 40 THEN 305 + (level - 25) * 10
  ELSE 455 + (level - 40) * 12

\* generateDefaultMove(type, level, isEnemy) with level tiers at 10, 25 and 40
generateDefaultMoveTiered(type, level, isEnemy) ==
  LET normalizedType == ToLowerCase(type)
      move == IF normalizedType \in DOMAIN tieredMovesByType
              THEN tieredMovesByType[normalizedType]
              ELSE tieredMovesByType["normal"]
  IN [name |-> move.name,
      power |-> (move.basePower * TieredMultiplier(level)
                   * (IF isEnemy THEN 12 ELSE 10)) \div 1000,
      type |-> normalizedType]

\* --------------------------------------------------------- calculateDamage
\* Math.random() < 0.0625
CritDraws == BOOLEAN

\* 0.85 + Math.random() * 0.15, in percent
RandomFactorDraws == {85, 99}

RandomDraws == [crit : CritDraws, pct : RandomFactorDraws]

\* the message of a damage result
DamageMessage(effectiveness, isCritical, defenderType) ==
  LET text == IF effectiveness > 3 THEN "It's super effective!"
              ELSE IF effectiveness > 2 THEN "It's effective!"
              ELSE IF effectiveness < 1 THEN "It's not very effective..."
              ELSE IF effectiveness < 2 THEN "It's somewhat ineffective."
              ELSE ""
  IN Msg(text, defenderType, IF isCritical THEN 1 ELSE 0)

\* the result returned when attacker, defender or move is missing
MissResult ==
  [damage |-> 0, effectiveness |-> 2, isCritical |-> FALSE,
   message |-> Msg("Attack missed!", "", 0)]

\* calculateDamage: the damage before the critical hit and the type
BaseDamage(attackerLevel, movePower, attackStat, defenseStat) ==
  (((2 * attackerLevel + 10) * movePower * attackStat)
     \div (250 * defenseStat)) + 2

\* calculateDamage: the damage after the type effectiveness
TypedDamage(baseDamage, effectiveness) ==
  IF effectiveness > 2 THEN (13 * effectiveness * baseDamage) \div 20
  ELSE IF effectiveness < 2 THEN (effectiveness * baseDamage) \div 2
  ELSE baseDamage

\* calculateDamage: the result for a base damage and an effectiveness
DamageResult(baseDamage0, effectiveness, rnd, defenderType) ==
  [damage |->
     Max(1, (TypedDamage(IF rnd.crit THEN (3 * baseDamage0) \div 2
                         ELSE baseDamage0, effectiveness) * rnd.pct) \div 100),
   effectiveness |-> effectiveness,
   isCritical |-> rnd.crit,
   message |-> DamageMessage(effectiveness, rnd.crit, defenderType)]

\* the number NaN; no arithmetic of the model yields a negative damage
NaN == 0 - 1

\* calculateDamage: defender.level * 2 + 5 is NaN for a defender without
\* level, and Math.floor and Math.max(1, NaN) keep the NaN
NaNResult(effectiveness, rnd, defenderType) ==
  [damage |-> NaN, effectiveness |-> effectiveness, isCritical |-> rnd.crit,
   message |-> DamageMessage(effectiveness, rnd.crit, defenderType)]

\* calculateDamage(attacker, defender, move) with the two random draws rnd
calculateDamage(attacker, defender, move, rnd) ==
  IF attacker = Null \/ defender = Null \/ move = Null THEN MissResult
  ELSE IF defender.stats.defense = 0 /\ defender.level = 0
  THEN NaNResult(getTypeEffectiveness(
                   OrStr(move.type, OrStr(attacker.type, "normal")),
                   OrStr(defender.type, "normal")),
                 rnd, defender.type)
  ELSE DamageResult(
         BaseDamage(OrNum(attacker.level, 1),
                    OrNum(move.power, 5 + (3 * OrNum(attacker.level, 1)) \div 2),
                    OrNum(attacker.stats.attack,
                          OrNum(attacker.level, 1) * 2 + 5),
                    OrNum(defender.stats.defense, defender.level * 2 + 5)),
         getTypeEffectiveness(
           OrStr(move.type, OrStr(attacker.type, "normal")),
           OrStr(defender.type, "normal")),
         rnd, defender.type)

\* ------------------------------------------------------------- the rewards
\* the two Math.random() draws of a reward, in hundredths
RewardDraws == [multiplier : {0, 50, 99}, factor : {0, 50, 99}]

\* calculateXp with the boss multiplier left out
calculateXpNoBossMultiplier(enemyPokemon, isBoss, rnd) ==
  IF enemyPokemon = Null THEN 0
  ELSE (OrNum(enemyPokemon.level, 1)
          * (IF isBoss \/ enemyPokemon.isBoss THEN 10 ELSE 5)
          * 100 * (900 + 2 * rnd.factor)) \div 100000

\* calculateXp(enemyPokemon, isBoss) of utils/battleUtils.js: base * boss
\* multiplier (2 + random) * random factor (0.9 + random * 0.2), floored
calculateXp(enemyPokemon, isBoss, rnd) ==
  IF enemyPokemon = Null THEN 0
  ELSE (OrNum(enemyPokemon.level, 1)
          * (IF isBoss \/ enemyPokemon.isBoss THEN 10 ELSE 5)
          * (IF isBoss \/ enemyPokemon.isBoss THEN 200 + rnd.multiplier
             ELSE 100)
          * (900 + 2 * rnd.factor)) \div 100000

\* calculateCurrency(enemyPokemon, isBoss) of utils/battleUtils.js: base *
\* boss multiplier (3 + random * 2) * random factor (0.8 + random * 0.4)
calculateCurrency(enemyPokemon, isBoss, rnd) ==
  IF enemyPokemon = Null THEN 0
  ELSE (OrNum(enemyPokemon.level, 1)
          * (IF isBoss \/ enemyPokemon.isBoss THEN 25 ELSE 10)
          * (IF isBoss \/ enemyPokemon.isBoss THEN 300 + 2 * rnd.multiplier
             ELSE 100)
          * (800 + 4 * rnd.factor)) \div 100000

\* the base of the tiered rewards: per level up to 10, 25 and 40 and above
TieredBase(enemyLevel, t1, t2, t3, t4) ==
  IF enemyLevel <= 10 THEN enemyLevel * t1
  ELSE IF enemyLevel <= 25 THEN 10 * t1 + (enemyLevel - 10) * t2
  ELSE IF enemyLevel <= 40 THEN 10 * t1 + 15 * t2 + (enemyLevel - 25) * t3
  ELSE 10 * t1 + 15 * t2 + 15 * t3 + (enemyLevel - 40) * t4

\* calculateXp(enemyPokemon, isBoss) in its tiered version
calculateXpTiered(enemyPokemon, isBoss) ==
  IF enemyPokemon = Null THEN 0
  ELSE TieredBase(OrNum(enemyPokemon.level, 1), 10, 15, 25, 35)
         * (IF isBoss THEN 4 ELSE 1)

\* calculateCurrency(enemyPokemon, isBoss) in its tiered version
calculateCurrencyTiered(enemyPokemon, isBoss) ==
  IF enemyPokemon = Null THEN 0
  ELSE TieredBase(OrNum(enemyPokemon.level, 1), 7, 12, 18, 25)
         * (IF isBoss THEN 3 ELSE 1)

\* ------------------------------------------------------------ battle state
isEnemyDefeated(enemy) == enemy = Null \/ enemy.currentHp <= 0

isPlayerDefeated(playerPokemon) ==
  playerPokemon = Null \/ playerPokemon.currentHp <= 0

isAllPlayerPokemonDefeated(roster) ==
  IF Len(roster) = 0 THEN TRUE
  ELSE \A i \in 1..Len(roster) : roster[i].currentHp <= 0

initialBattleState ==
  [enemy |-> Null, playerPokemon |-> Null, playerRoster |-> <<>>,
   battleState |-> BATTLE_STATES.IDLE, battleLog |-> <<>>,
   isPlayerTurn |-> TRUE, playerMove |-> Null, enemyMove |-> Null,
   activeItem |-> Null, items |-> <<>>]

\* the reducer throws a TypeError: it reads a property of a null
\* enemy or of a null playerPokemon
ReducerThrows(state, action) ==
  CASE action.type = "ATTACK" -> state.playerPokemon = Null
    [] action.type = "ATTACK_COMPLETE" ->
         \/ state.playerMove = Null /\ state.playerPokemon = Null
         \/ state.enemy = Null
         \/ state.enemy.currentHp <= 0 /\ state.playerPokemon = Null
    [] action.type = "ENEMY_ATTACK" -> state.enemy = Null
    [] action.type = "ENEMY_ATTACK_COMPLETE" ->
         \/ state.enemyMove = Null /\ state.enemy = Null
         \/ state.playerPokemon = Null
    [] action.type = "CHANGE_POKEMON" ->
         action.pokemon = Null /\ state.playerPokemon = Null
    [] OTHER -> FALSE

\* case ATTACK_COMPLETE once the updated enemy is known
AttackCompleteState(state, damageResult, updatedEnemy) ==
  IF isEnemyDefeated(updatedEnemy)
  THEN [state EXCEPT
          !.enemy = updatedEnemy,
          !.battleState = BATTLE_STATES.VICTORY,
          !.battleLog = state.battleLog \o
            << Msg("It did damage!", "", damageResult.damage),
               damageResult.message,
               Msg("Enemy fainted!", state.enemy.name, 0),
               Msg("gained XP!", state.playerPokemon.name,
                   state.enemy.level * 2) >>]
  ELSE [state EXCEPT
          !.enemy = updatedEnemy,
          !.battleState = BATTLE_STATES.ENEMY_TURN,
          !.battleLog = state.battleLog \o
            << Msg("It did damage!", "", damageResult.damage),
               damageResult.message >>,
          !.isPlayerTurn = FALSE]

\* case ATTACK_COMPLETE for a damage result
AttackCompleteWith(state, damageResult) ==
  AttackCompleteState(state, damageResult,
    [state.enemy EXCEPT
       !.currentHp = Max(0, state.enemy.currentHp - damageResult.damage),
       !.isHit = TRUE])

\* the move of the player in ATTACK_COMPLETE
PlayerMoveOf(state) ==
  IF state.playerMove # Null THEN state.playerMove
  ELSE [name |-> "", type |-> state.playerPokemon.type, power |-> 40]

\* ReduceAttackComplete with the opponent's HP not clamped at 0
ReduceAttackCompleteUnclamped(state, rnd) ==
  AttackCompleteState(state,
    calculateDamage(state.playerPokemon, state.enemy, PlayerMoveOf(state), rnd),
    [state.enemy EXCEPT
       !.currentHp = state.enemy.currentHp -
         calculateDamage(state.playerPokemon, state.enemy,
                         PlayerMoveOf(state), rnd).damage,
       !.isHit = TRUE])

\* case ATTACK_COMPLETE
ReduceAttackComplete(state, rnd) ==
  AttackCompleteWith(state,
    calculateDamage(state.playerPokemon, state.enemy, PlayerMoveOf(state), rnd))

\* case ENEMY_ATTACK
ReduceEnemyAttack(state) ==
  LET enemyMove == generateDefaultMove(OrStr(state.enemy.type, "normal"),
                                       OrNum(state.enemy.level, 5))
  IN [state EXCEPT
        !.battleState = BATTLE_STATES.ENEMY_TURN,
        !.activeItem = Null,
        !.battleLog = Append(state.battleLog,
                             Msg2("Enemy used!", state.enemy.name,
                                 enemyMove.name)),
        !.enemyMove = enemyMove]

\* case ENEMY_ATTACK_COMPLETE once the updated creature is known
EnemyAttackCompleteState(state, damageResult, updatedPlayerPokemon) ==
  IF isPlayerDefeated(updatedPlayerPokemon)
  THEN IF isAllPlayerPokemonDefeated(state.playerRoster)
       THEN [state EXCEPT
               !.playerPokemon = updatedPlayerPokemon,
               !.battleState = BATTLE_STATES.DEFEAT,
               !.battleLog = state.battleLog \o
                 << Msg("It did damage!", "", damageResult.damage),
                    damageResult.message,
                    Msg("fainted!", state.playerPokemon.name, 0),
                    Msg("You have no usable Pokemon left!", "", 0) >>]
       ELSE [state EXCEPT
               !.playerPokemon = updatedPlayerPokemon,
               !.battleState = BATTLE_STATES.CHANGING_POKEMON,
               !.battleLog = state.battleLog \o
                 << Msg("It did damage!", "", damageResult.damage),
                    damageResult.message,
                    Msg("fainted!", state.playerPokemon.name, 0),
                    Msg("Choose another Pokemon!", "", 0) >>,
               !.isPlayerTurn = TRUE]
  ELSE [state EXCEPT
          !.playerPokemon = updatedPlayerPokemon,
          !.battleState = BATTLE_STATES.PLAYER_TURN,
          !.battleLog = state.battleLog \o
            << Msg("It did damage!", "", damageResult.damage),
               damageResult.message >>,
          !.isPlayerTurn = TRUE]

\* case ENEMY_ATTACK_COMPLETE for a damage result
EnemyAttackCompleteWith(state, damageResult) ==
  EnemyAttackCompleteState(state, damageResult,
    [state.playerPokemon EXCEPT
       !.currentHp =
         Max(0, state.playerPokemon.currentHp - damageResult.damage),
       !.isHit = TRUE])

\* case ENEMY_ATTACK_COMPLETE
ReduceEnemyAttackComplete(state, rnd) ==
  EnemyAttackCompleteWith(state,
    calculateDamage(state.enemy, state.playerPokemon,
      IF state.enemyMove # Null THEN state.enemyMove
      ELSE [name |-> "", type |-> state.enemy.type, power |-> 40],
      rnd))

\* case CHANGE_POKEMON
ReduceChangePokemon(state, pokemon) ==
  IF pokemon # Null
  THEN [state EXCEPT
          !.playerPokemon = pokemon,
          !.battleState = BATTLE_STATES.ENEMY_TURN,
          !.battleLog = state.battleLog \o
            << IF state.playerPokemon # Null
               THEN Msg("return!", state.playerPokemon.name, 0)
               ELSE Msg("Come back!", "", 0),
               Msg("Go!", pokemon.name, 0) >>,
          !.isPlayerTurn = FALSE]
  ELSE [state EXCEPT
          !.battleState = BATTLE_STATES.CHANGING_POKEMON,
          !.battleLog = state.battleLog \o
            << Msg("return!", state.playerPokemon.name, 0),
               Msg("Choose another Pokemon!", "", 0) >>]

\* case START_BATTLE
ReduceStartBattle(state, enemy) ==
  [state EXCEPT
     !.enemy = enemy,
     !.battleState = BATTLE_STATES.SELECT_POKEMON,
     !.battleLog = << Msg("A wild appeared!", enemy.name, 0) >>,
     !.isPlayerTurn = TRUE]

\* case USE_ITEM
ReduceUseItem(state, item) ==
  [state EXCEPT !.battleState = BATTLE_STATES.USE_ITEM, !.activeItem = item]

\* case UPDATE_BATTLE_LOG with the message in place of the log
ReduceUpdateBattleLogReplacing(state, message) ==
  [state EXCEPT !.battleLog = << message >>]

\* case UPDATE_BATTLE_LOG
ReduceUpdateBattleLog(state, message) ==
  [state EXCEPT !.battleLog = Append(state.battleLog, message)]

\* case UPDATE_PLAYER_POKEMON
ReduceUpdatePlayerPokemon(state, pokemon) ==
  [state EXCEPT !.playerPokemon = pokemon]

\* battleReducer(state, action); rnd is what Math.random() returns inside
\* calculateDamage.  Defined where ReducerThrows(state, action) is false.
battleReducer(state, action, rnd) ==
  CASE action.type = "START_BATTLE" -> ReduceStartBattle(state, action.enemy)
    [] action.type = "SELECT_POKEMON" ->
         [state EXCEPT
            !.playerPokemon = action.pokemon,
            !.battleState = BATTLE_STATES.PLAYER_TURN,
            !.battleLog = Append(state.battleLog,
                                 Msg("Go!", action.pokemon.name, 0))]
    [] action.type = "ATTACK" ->
         [state EXCEPT
            !.battleState = BATTLE_STATES.ATTACKING,
            !.battleLog = Append(state.battleLog,
                                 Msg2("used!", state.playerPokemon.name,
                                      action.move.name)),
            !.playerMove = action.move]
    [] action.type = "ATTACK_COMPLETE" -> ReduceAttackComplete(state, rnd)
    [] action.type = "ENEMY_ATTACK" -> ReduceEnemyAttack(state)
    [] action.type = "ENEMY_ATTACK_COMPLETE" ->
         ReduceEnemyAttackComplete(state, rnd)
    [] action.type = "CHANGE_POKEMON" ->
         ReduceChangePokemon(state, action.pokemon)
    [] action.type = "USE_ITEM" -> ReduceUseItem(state, action.item)
    [] action.type = "FLEE" ->
         [state EXCEPT
            !.battleState = BATTLE_STATES.FLEEING,
            !.battleLog = Append(state.battleLog,
                                 Msg("Got away safely!", "", 0))]
    [] action.type = "BATTLE_END" ->
         [state EXCEPT
            !.enemy = Null,
            !.playerPokemon = Null,
            !.battleState = BATTLE_STATES.IDLE,
            !.battleLog = <<>>,
            !.isPlayerTurn = TRUE]
    [] action.type = "UPDATE_BATTLE_LOG" ->
         ReduceUpdateBattleLog(state, action.message)
    [] action.type = "UPDATE_PLAYER_POKEMON" ->
         ReduceUpdatePlayerPokemon(state, action.pokemon)
    [] action.type = "UPDATE_ROSTER" ->
         [state EXCEPT !.playerRoster = action.roster]
    [] action.type = "UPDATE_ITEMS" ->
         [state EXCEPT !.items = action.items]
    [] OTHER -> state

\* ------------------------------------------------------------- the inputs
\* a roster creature as RosterContextProvider holds it: level, xp, currentHp
\* and attack are always present after its initialisation
Creature(id, name, type, level, hp, attack, defense, currentHp, move) ==
  [id |-> id, name |-> name, type |-> type, level |-> level, xp |-> 0,
   currentHp |-> currentHp,
   stats |-> [hp |-> hp, attack |-> attack, defense |-> defense],
   attack |-> move, isHit |-> FALSE,
   attackBoost |-> 0, attackBoostOriginal |-> 0,
   attackBoostEndsAfterBattle |-> FALSE,
   defenseBoost |-> 0, defenseBoostOriginal |-> 0,
   defenseBoostEndsAfterBattle |-> FALSE]

Pikachu(currentHp) ==
  Creature(25, "pikachu", "electric", 5, 35, 55, 40, currentHp,
           [name |-> "Thunder Shock", type |-> "electric", power |-> 60])

Zubat(currentHp) ==
  Creature(41, "zubat", "poison", 5, 40, 45, 35, currentHp,
           [name |-> "Poison Sting", type |-> "poison", power |-> 60])

\* the rosters a session starts with; a stored currentHp of 0 is replaced by
\* stats.hp when the provider is constructed, so every creature starts alive
InitialRosters ==
  { << Pikachu(1) >>, << Pikachu(1), Zubat(40) >>, << Zubat(30) >> }

Item(id, name, effect, amount, stat, quantity, battleUsable, price) ==
  [id |-> id, name |-> name, effect |-> effect, amount |-> amount,
   stat |-> stat, statusEffect |-> IF effect = "status" THEN "poison" ELSE "",
   quantity |-> quantity, battleUsable |-> battleUsable, price |-> price]

\* amount: HP for heal, percent for boost and revive
Potion(q) == Item("potion", "Potion", "heal", 20, "", q, TRUE, 50)

SuperPotion(q) ==
  Item("super-potion", "Super Potion", "heal", 50, "", q, TRUE, 150)

XAttack(q) == Item("x-attack", "X Attack", "boost", 20, "attack", q, TRUE, 250)

RareCandy(q) == Item("rare-candy", "Rare Candy", "levelup", 1, "", q, FALSE, 1000)

Revive(q) == Item("revive", "Revive", "revive", 50, "", q, TRUE, 200)

InitialItems == { << Potion(1), XAttack(1), RareCandy(1) >> }

\* an opponent descriptor as handed to startBattle; currentHp 0, level 0 and
\* hasStats FALSE stand for an absent field
Opponent(name, type, level, currentHp, hasStats, hp, attack, defense) ==
  [name |-> name, type |-> type, level |-> level, currentHp |-> currentHp,
   hasStats |-> hasStats,
   stats |-> [hp |-> hp, attack |-> attack, defense |-> defense],
   isHit |-> FALSE]

\* Battle page: the opponent built from the adventure's battle data or from the
\* query string: stats from the level, no currentHp
RouteEnemy(name, type, level) ==
  Opponent(name, type, level, 0, TRUE, 50 + level * 5, 10 + level * 2,
           10 + level * 2)

RouteEnemies ==
  { RouteEnemy("Oddish", "grass", 1), RouteEnemy("Rattata", "normal", 5) }

\* the opponents handed to startBattle directly: also one without stats and
\* level
EnemyInputs ==
  RouteEnemies \cup { Opponent("Wild Pokemon", "normal", 0, 0, FALSE, 0, 0, 0) }

\* how the battle page was opened: by an adventure id in the path or by an
\* enemyId in the query string
RouteModes == {"adventure", "query"}

\* the battles of an adventure in the model
AdventureBattles == 3

\* AdventureCard, handleStartClick: the record of the adventure in
\* sessionStorage, with the count of its battles for the battles themselves
AdventureData(currentBattle) ==
  [currentBattle |-> currentBattle, battles |-> AdventureBattles]

\* ------------------------------------------------------------------- state
VARIABLES
  state,          \* the useReducer state of BattleProvider
  rosterPokemon,  \* RosterContextProvider: the persistent roster
  items,          \* RosterContextProvider: the item collection
  currency,       \* RosterContextProvider: the balance
  timers,         \* pending setTimeout callbacks, oldest first
  page,           \* "battle" while the Battle page is mounted
  showRoster,     \* Battle page: useState(showRoster)
  route,          \* the opponent and mode the Battle page was opened with, and
                  \* the currentBattle its initialisation effect last read
  error,          \* "none", or the exception that ended the session
  actions,        \* commands and direct calls so far
  lastAction,     \* the operation of the last step and the phase it met
  hitsSinceEnemy, \* damage applications of ATTACK_COMPLETE (at most 2) since the
                  \* last ENEMY_ATTACK_COMPLETE or START_BATTLE
  sessionStorage, \* the adventure record and the victory keys of the browser
  provider,       \* "first": the BattleProvider whose victory effect calls
                  \* handleVictory; "second": the one that leaves the rewards out
  rewardsApplied  \* runs of handleVictory since the last START_BATTLE

vars ==
  << state, rosterPokemon, items, currency, timers, page, showRoster, route,
     error, actions, lastAction, hitsSinceEnemy, sessionStorage, provider,
     rewardsApplied >>

Timer(kind, delay) == [kind |-> kind, delay |-> delay, remaining |-> delay]

Last(kind, before, arg) == [kind |-> kind, before |-> before, arg |-> arg]

\* --------------------------------------------------- RosterContextProvider
\* { ...pokemon, ...updatedStats } for an update that carries only currentHp
MergeHp(pokemon, currentHp) == [pokemon EXCEPT !.currentHp = currentHp]

\* updatePokemonStats(pokemonId, { currentHp })
updatePokemonStatsHp(roster, pokemonId, currentHp) ==
  [i \in 1..Len(roster) |->
     IF roster[i].id = pokemonId THEN MergeHp(roster[i], currentHp)
     ELSE roster[i]]

\* updatePokemonStats(pokemonId, updatedPokemon) with a whole creature
updatePokemonStats(roster, pokemonId, updatedPokemon) ==
  [i \in 1..Len(roster) |->
     IF roster[i].id = pokemonId THEN updatedPokemon ELSE roster[i]]

\* updatePokemonStats(pokemonId, { attackBoost, attackBoostOriginal,
\* attackBoostEndsAfterBattle }) and the same for defense
updatePokemonStatsBoost(roster, pokemonId, statName, boostedStat, currentStat) ==
  [i \in 1..Len(roster) |->
     IF roster[i].id # pokemonId THEN roster[i]
     ELSE IF statName = "attack"
     THEN [roster[i] EXCEPT !.attackBoost = boostedStat,
                            !.attackBoostOriginal = currentStat,
                            !.attackBoostEndsAfterBattle = TRUE]
     ELSE [roster[i] EXCEPT !.defenseBoost = boostedStat,
                            !.defenseBoostOriginal = currentStat,
                            !.defenseBoostEndsAfterBattle = TRUE]]

\* levelUpPokemon(pokemonId)
levelUpPokemon(roster, pokemonId) ==
  [i \in 1..Len(roster) |->
     IF roster[i].id = pokemonId /\ roster[i].level < 25
     THEN [roster[i] EXCEPT
             !.level = @ + 1,
             !.xp = 0,
             !.stats = [hp |-> (11 * @.hp) \div 10,
                        attack |-> (11 * @.attack) \div 10,
                        defense |-> (11 * @.defense) \div 10],
             !.currentHp = (11 * roster[i].stats.hp) \div 10,
             !.attack = [@ EXCEPT !.power = 50 + (roster[i].level + 1) * 2]]
     ELSE roster[i]]

\* updateItemQuantity(itemId, change)
updateItemQuantity(its, itemId, change) ==
  [i \in 1..Len(its) |->
     IF its[i].id = itemId
     THEN [its[i] EXCEPT !.quantity = Max(0, @ + change)]
     ELSE its[i]]

\* the victory reward: the creature with the experience xp, levelled up once
\* if xp reaches level * 100
RewardLevelUp(pokemon, xp) ==
  IF xp >= pokemon.level * 100
  THEN [pokemon EXCEPT
          !.level = @ + 1,
          !.xp = xp - pokemon.level * 100,
          !.stats = [hp |-> (11 * @.hp) \div 10,
                     attack |-> (11 * @.attack) \div 10,
                     defense |-> (11 * @.defense) \div 10],
          !.currentHp = (11 * pokemon.stats.hp) \div 10]
  ELSE [pokemon EXCEPT !.xp = xp]

\* the victory reward of handleVictory and of VictoryScreen on the roster
VictoryReward(roster, pokemon, xpGained) ==
  updatePokemonStats(roster, pokemon.id,
                     RewardLevelUp(pokemon, pokemon.xp + xpGained))

\* addExperience(pokemonId, amount)
addExperience(roster, pokemonId, amount) ==
  [i \in 1..Len(roster) |->
     IF roster[i].id # pokemonId THEN roster[i]
     ELSE IF roster[i].xp + amount >= roster[i].level * 100
             /\ roster[i].level < 25
     THEN [roster[i] EXCEPT
             !.level = @ + 1,
             !.xp = roster[i].xp + amount - roster[i].level * 100,
             !.stats = [hp |-> (11 * @.hp) \div 10,
                        attack |-> (11 * @.attack) \div 10,
                        defense |-> (11 * @.defense) \div 10],
             !.currentHp = (11 * roster[i].stats.hp) \div 10,
             !.attack = [@ EXCEPT !.power = 50 + (roster[i].level + 1) * 2]]
     ELSE [roster[i] EXCEPT !.xp = @ + amount]]

\* updateCurrency without the floor at 0
updateCurrencyUnclamped(cur, amount) == cur + amount

\* updateCurrency(amount)
updateCurrency(cur, amount) == Max(0, cur + amount)

\* a reward of generateAdventureRewards
Reward(type, id, amount) == [type |-> type, id |-> id, amount |-> amount]

\* VictoryScreen, generateAdventureRewards() for the final boss battle: the
\* bonus experience and currency, then the items of the adventure
generateAdventureRewards(displayXp, displayCurrency, adventureType) ==
  << Reward("xp", "", displayXp \div 2),
     Reward("currency", "", (3 * displayCurrency) \div 10) >>
  \o CASE adventureType = "random" -> << Reward("item", "potion", 2) >>
       [] adventureType = "plant" ->
            << Reward("item", "super-potion", 1), Reward("item", "potion", 1) >>
       [] adventureType = "safari" ->
            << Reward("item", "super-potion", 1), Reward("item", "x-attack", 1),
               Reward("item", "revive", 1) >>
       [] OTHER -> << Reward("item", "potion", 1) >>

\* VictoryScreen, rewards.forEach from the k-th reward on: acc is what the
\* setters called so far leave for the next render.  updatePokemonStats and
\* updateItemQuantity set a value computed from the roster and the items of
\* the render in which the effect runs; updateCurrency passes a function of
\* the pending balance
RECURSIVE ApplyRewards(_, _, _, _, _, _)
ApplyRewards(rewards, k, roster, its, updatedPokemon, acc) ==
  IF k > Len(rewards) THEN acc
  ELSE LET reward == rewards[k]
           next ==
             CASE reward.type = "xp" ->
                    [acc EXCEPT !.roster =
                       updatePokemonStats(roster, updatedPokemon.id,
                         RewardLevelUp(updatedPokemon,
                                       updatedPokemon.xp + reward.amount))]
               [] reward.type = "currency" ->
                    [acc EXCEPT !.currency = updateCurrency(@, reward.amount)]
               [] reward.type = "item" /\ reward.id # "" ->
                    [acc EXCEPT !.items =
                       updateItemQuantity(its, reward.id, reward.amount)]
               [] OTHER -> acc
       IN ApplyRewards(rewards, k + 1, roster, its, updatedPokemon, next)

\* VictoryScreen: the reward effect for the boss of the final battle: the
\* roster, the items and the balance of the next render
VictoryScreenRewards(roster, its, cur, pokemon, displayXp, displayCurrency, adventureType) ==
  LET updatedPokemon == RewardLevelUp(pokemon, pokemon.xp + displayXp)
  IN ApplyRewards(
       generateAdventureRewards(displayXp, displayCurrency, adventureType),
       1, roster, its, updatedPokemon,
       [roster |-> updatePokemonStats(roster, pokemon.id, updatedPokemon),
        items |-> its,
        currency |-> updateCurrency(cur, displayCurrency)])

\* buyItem(itemId): what it returns, and the balance and items it leaves
buyItem(its, cur, itemId) ==
  IF \A i \in 1..Len(its) : its[i].id # itemId
  THEN [returned |-> FALSE, currency |-> cur, items |-> its]
  ELSE LET item == its[CHOOSE i \in 1..Len(its) : its[i].id = itemId]
       IN IF cur >= item.price
          THEN [returned |-> TRUE,
                currency |-> updateCurrency(cur, 0 - item.price),
                items |-> updateItemQuantity(its, itemId, 1)]
          ELSE [returned |-> FALSE, currency |-> cur, items |-> its]

\* buyItem(itemId) called again in the render whose balance is cur and whose
\* items are its, after a call that left first pending: the test reads the
\* balance of the render, updateCurrency passes a function of the pending
\* balance, updateItemQuantity sets a value computed from the items of the
\* render
buyItemAgain(its, cur, first, itemId) ==
  IF \A i \in 1..Len(its) : its[i].id # itemId
  THEN [returned |-> FALSE, currency |-> first.currency, items |-> first.items]
  ELSE LET item == its[CHOOSE i \in 1..Len(its) : its[i].id = itemId]
       IN IF cur >= item.price
          THEN [returned |-> TRUE,
                currency |-> updateCurrency(first.currency, 0 - item.price),
                items |-> updateItemQuantity(its, itemId, 1)]
          ELSE [returned |-> FALSE, currency |-> first.currency,
                items |-> first.items]

\* addPokemonToRoster(pokemon): missing level, xp and currentHp are filled in
addPokemonToRoster(roster, pokemon) ==
  Append(roster,
         [pokemon EXCEPT !.level = OrNum(pokemon.level, 1),
                         !.currentHp = OrNum(pokemon.currentHp,
                                             pokemon.stats.hp)])

\* removePokemonFromRoster(pokemonId)
removePokemonFromRoster(roster, pokemonId) ==
  SelectSeq(roster, LAMBDA p : p.id # pokemonId)

\* addToRoster(pokemon, setRosterPokemon) of utils/roster.js: the new entry
\* carries id, name and stats only
addToRoster(prevRoster, pokemon) ==
  IF \E i \in 1..Len(prevRoster) : prevRoster[i].id = pokemon.id
  THEN prevRoster
  ELSE IF Len(prevRoster) >= 6 THEN prevRoster
  ELSE Append(prevRoster, [pokemon EXCEPT !.level = 0, !.currentHp = 0])

\* what useItem returns and the roster and items it leaves: returned is
\* "false" for the bare false, else "object" with its success flag
UseResult(returned, success, roster, its) ==
  [returned |-> returned, success |-> success, roster |-> roster, items |-> its]

\* ReviveEffect without the test of currentHp
ReviveEffectUnchecked(its, roster, item, pokemon) ==
  UseResult("object", TRUE,
    updatePokemonStatsHp(roster, pokemon.id,
      (pokemon.stats.hp * item.amount) \div 100),
    updateItemQuantity(its, item.id, -1))

\* useItem: case "revive"
ReviveEffect(its, roster, item, pokemon) ==
  IF pokemon.currentHp <= 0
  THEN UseResult("object", TRUE,
         updatePokemonStatsHp(roster, pokemon.id,
           (pokemon.stats.hp * item.amount) \div 100),
         updateItemQuantity(its, item.id, -1))
  ELSE UseResult("object", FALSE, roster, its)

\* useItem: the switch on item.effect for an item and a creature that were
\* found, and the consumption of the item when updated is true
RosterItemEffect(its, roster, item, pokemon) ==
  CASE item.effect = "heal" ->
         IF pokemon.currentHp < pokemon.stats.hp
         THEN UseResult("object", TRUE,
                updatePokemonStatsHp(roster, pokemon.id,
                  pokemon.currentHp
                    + Min(item.amount, pokemon.stats.hp - pokemon.currentHp)),
                updateItemQuantity(its, item.id, -1))
         ELSE UseResult("object", FALSE, roster, its)
    [] item.effect = "fullheal" ->
         IF pokemon.currentHp < pokemon.stats.hp
         THEN UseResult("object", TRUE,
                updatePokemonStatsHp(roster, pokemon.id, pokemon.stats.hp),
                updateItemQuantity(its, item.id, -1))
         ELSE UseResult("object", FALSE, roster, its)
    [] item.effect = "revive" -> ReviveEffect(its, roster, item, pokemon)
    [] item.effect = "boost" ->
         UseResult("object", TRUE,
           updatePokemonStatsBoost(roster, pokemon.id,
             OrStr(item.stat, "attack"),
             (pokemon.stats[OrStr(item.stat, "attack")] * (100 + item.amount))
               \div 100,
             pokemon.stats[OrStr(item.stat, "attack")]),
           updateItemQuantity(its, item.id, -1))
    [] item.effect = "levelup" ->
         UseResult("object", TRUE, levelUpPokemon(roster, pokemon.id),
                   updateItemQuantity(its, item.id, -1))
    [] OTHER ->
         UseResult("object", TRUE, roster, updateItemQuantity(its, item.id, -1))

\* RosterContextProvider.useItem(itemId, pokemonId)
RosterUseItem(its, roster, itemId, pokemonId) ==
  IF \/ \A i \in 1..Len(its) : its[i].id # itemId
     \/ \A j \in 1..Len(roster) : roster[j].id # pokemonId
  THEN UseResult("false", FALSE, roster, its)
  ELSE LET item == its[CHOOSE i \in 1..Len(its) : its[i].id = itemId]
           pokemon ==
             roster[CHOOSE j \in 1..Len(roster) : roster[j].id = pokemonId]
       IN IF item.quantity <= 0 THEN UseResult("false", FALSE, roster, its)
          ELSE IF pokemon.currentHp <= 0 /\ item.effect # "revive"
          THEN UseResult("object", FALSE, roster, its)
          ELSE RosterItemEffect(its, roster, item, pokemon)

\* ---------------------------------------------------------- BattleProvider
\* PrepareEnemy with currentHp copied without a default
PrepareEnemyNoHpDefault(enemy) ==
  [enemy EXCEPT
     !.stats = IF enemy.hasStats THEN enemy.stats
               ELSE [hp |-> 50,
                     attack |-> 10 * OrNum(enemy.level, 1),
                     defense |-> 10 * OrNum(enemy.level, 1)],
     !.hasStats = TRUE,
     !.level = OrNum(enemy.level, 5)]

\* startBattle: the opponent with currentHp, stats and level filled in
PrepareEnemy(enemy) ==
  [enemy EXCEPT
     !.currentHp = OrNum(enemy.currentHp,
                         OrNum(IF enemy.hasStats THEN enemy.stats.hp ELSE 0, 50)),
     !.stats = IF enemy.hasStats THEN enemy.stats
               ELSE [hp |-> 50,
                     attack |-> 10 * OrNum(enemy.level, 1),
                     defense |-> 10 * OrNum(enemy.level, 1)],
     !.hasStats = TRUE,
     !.level = OrNum(enemy.level, 5)]

\* selectPokemon: the creature with its name capitalised
PrepareSelected(pokemon) ==
  IF pokemon.name # "" THEN [pokemon EXCEPT !.name = Capitalize(pokemon.name)]
  ELSE pokemon

\* -------------------------------------------------------- BattleControls
knownTypes ==
  [pikachu |-> "electric", rattata |-> "normal", gastly |-> "ghost",
   bulbasaur |-> "grass", charmander |-> "fire", squirtle |-> "water"]

typeToMove ==
  [normal |-> "Tackle", fire |-> "Ember", water |-> "Water Gun",
   grass |-> "Vine Whip", electric |-> "Thunder Shock",
   poison |-> "Poison Sting", psychic |-> "Confusion",
   fighting |-> "Karate Chop", rock |-> "Rock Throw", ground |-> "Sand Attack",
   flying |-> "Gust", ice |-> "Ice Shard", bug |-> "Bug Bite",
   dragon |-> "Dragon Rage", ghost |-> "Shadow Ball", fairy |-> "Fairy Wind",
   dark |-> "Bite", steel |-> "Metal Claw"]

\* generateTypeBasedMove for a creature that carries an attack property
generateTypeBasedMove(playerPokemon) ==
  IF playerPokemon = Null THEN Null
  ELSE LET name == ToLowerCase(playerPokemon.name)
           fallbackPower == 5 + (3 * OrNum(playerPokemon.level, 1)) \div 2
       IN IF name \in DOMAIN knownTypes
          THEN [name |-> typeToMove[knownTypes[name]],
                type |-> knownTypes[name],
                power |-> fallbackPower]
          ELSE [name |-> playerPokemon.attack.name,
                type |-> ToLowerCase(playerPokemon.attack.type),
                power |-> OrNum(playerPokemon.attack.power, fallbackPower)]

\* const canFight = playerPokemon && playerPokemon.currentHp > 0
canFight == state.playerPokemon # Null /\ state.playerPokemon.currentHp > 0

\* the Battle page renders the roster selection instead of the controls
RosterScreen ==
  showRoster \/ state.battleState = BATTLE_STATES.SELECT_POKEMON

\* the battle controls are on screen
ControlsShown == page = "battle" /\ ~RosterScreen

\* ----------------------------------------------------------------- effects
RemoveKind(ts, kind) == SelectSeq(ts, LAMBDA t : t.kind # kind)

\* which object references a step replaced: the enemy, the active creature,
\* the functions of RosterContextProvider (it re-rendered)
Touched(enemy, player, store) ==
  [enemy |-> enemy, player |-> player, store |-> store]

\* second BattleProvider: effect on [battleState, enemy, playerPokemon] that
\* logs the victory
VictoryEffect(old, new, t) ==
  IF /\ provider = "second"
     /\ new.battleState = BATTLE_STATES.VICTORY
     /\ new.enemy # Null
     /\ new.playerPokemon # Null
     /\ (old.battleState # new.battleState \/ t.enemy \/ t.player)
  THEN [new EXCEPT
          !.battleLog = Append(@, Msg("You defeated!", new.enemy.name, 0))]
  ELSE new

\* BattleProvider: effect on [battleState] that schedules the enemy's attack
\* and whose cleanup clears the timer it scheduled
EnemyTurnEffect(old, new, ts) ==
  IF old.battleState = new.battleState THEN ts
  ELSE LET cleared == RemoveKind(ts, "ENEMY_TURN")
       IN IF new.battleState = BATTLE_STATES.ENEMY_TURN
          THEN Append(cleared, Timer("ENEMY_TURN", EnemyTurnDelay))
          ELSE cleared

\* Battle page: the effect on [battleState, endBattle, navigate] runs again
PageEffectRuns(old, new, t) ==
  old.battleState # new.battleState \/ t.player \/ t.store

\* Battle page: setShowRoster in the battle-state effect
PageShowRoster(old, new, t, pg, sr) ==
  IF pg = "battle" /\ PageEffectRuns(old, new, t)
  THEN IF new.battleState = BATTLE_STATES.SELECT_POKEMON THEN TRUE
       ELSE IF new.battleState \in {BATTLE_STATES.VICTORY, BATTLE_STATES.DEFEAT,
                                    BATTLE_STATES.FLEEING}
       THEN sr
       ELSE FALSE
  ELSE sr

\* Battle page: what the battle-state effect leaves of the adventure record
\* adv of sessionStorage: Victory advances currentBattle or, after the last
\* battle, removes the record; Defeat and Fleeing remove it
PageAdventure(old, new, t, pg, md, adv) ==
  IF pg = "battle" /\ PageEffectRuns(old, new, t) /\ md = "adventure"
  THEN IF new.battleState = BATTLE_STATES.VICTORY
       THEN IF adv = Null THEN adv
            ELSE IF adv.currentBattle >= adv.battles - 1 THEN Null
            ELSE [adv EXCEPT !.currentBattle = @ + 1]
       ELSE IF new.battleState \in {BATTLE_STATES.DEFEAT,
                                    BATTLE_STATES.FLEEING}
       THEN Null
       ELSE adv
  ELSE adv

\* Battle page: the end-of-battle timer of the battle-state effect: PAGE_END
\* calls endBattle() and navigates to the adventures page, PAGE_NEXT calls
\* endBattle() and navigates to the battle page of the adventure; in Victory
\* with an adventure id and no record no timer is set (the 1500 ms navigation
\* timer of the Fleeing case is always cleared by the BATTLE_END that flee()
\* schedules 1000 ms ahead, so it is left out)
PageEndTimer(old, new, t, pg, md, adv, ts) ==
  IF pg = "battle" /\ PageEffectRuns(old, new, t)
  THEN LET cleared == RemoveKind(RemoveKind(ts, "PAGE_END"), "PAGE_NEXT")
       IN IF new.battleState = BATTLE_STATES.DEFEAT
          THEN Append(cleared, Timer("PAGE_END", PageEndDelay))
          ELSE IF new.battleState = BATTLE_STATES.VICTORY
          THEN IF md # "adventure"
               THEN Append(cleared, Timer("PAGE_END", PageEndDelay))
               ELSE IF adv = Null THEN cleared
               ELSE IF adv.currentBattle >= adv.battles - 1
               THEN Append(cleared, Timer("PAGE_END", PageEndDelay))
               ELSE Append(cleared, Timer("PAGE_NEXT", PageEndDelay))
          ELSE cleared
  ELSE ts

\* one render: the reducer result new replaces old, then the effects run
Render(old, new, ts, t, pg, sr, md, adv) ==
  [state |-> VictoryEffect(old, new, t),
   timers |-> PageEndTimer(old, new, t, pg, md, adv,
                           EnemyTurnEffect(old, new, ts)),
   showRoster |-> PageShowRoster(old, new, t, pg, sr),
   page |-> pg,
   adventure |-> PageAdventure(old, new, t, pg, md, adv),
   started |-> FALSE]

\* Battle page: the initialisation effect on [isBattleActive] when the battle
\* has just become inactive while the page stays mounted: it starts the battle
\* of the query string again, or the battle the adventure record stands at, or
\* navigates to the adventures page
Settle(old, new, ts, t) ==
  LET r == Render(old, new, ts, t, page, showRoster, route.mode,
                  sessionStorage.adventure)
      again == [Render(r.state,
                       ReduceStartBattle(r.state, PrepareEnemy(route.enemy)),
                       r.timers, Touched(TRUE, FALSE, FALSE), page,
                       r.showRoster, route.mode, r.adventure)
                  EXCEPT !.started = TRUE]
      away == [r EXCEPT !.page = "adventures", !.showRoster = FALSE,
                        !.timers = RemoveKind(RemoveKind(r.timers, "PAGE_END"),
                                              "PAGE_NEXT")]
  IN IF /\ page = "battle"
        /\ old.battleState # BATTLE_STATES.IDLE
        /\ r.state.battleState = BATTLE_STATES.IDLE
     THEN IF route.mode = "query" THEN again
          ELSE IF r.adventure = Null THEN away
          ELSE IF r.adventure.currentBattle >= r.adventure.battles
          THEN [away EXCEPT !.adventure = Null]
          ELSE again
     ELSE r

\* the effects that copy the roster and the items into the reducer state
Synced(s, roster, its) == [s EXCEPT !.playerRoster = roster, !.items = its]

\* first BattleProvider: the sessionStorage key that marks a victory as
\* processed, `${playerPokemon.id}-${enemy.id}-victory`; the opponent's name
\* stands for its id
VictoryKey(s) ==
  [pokemon |-> IF s.playerPokemon = Null THEN 0 ELSE s.playerPokemon.id,
   enemy |-> IF s.enemy = Null THEN "" ELSE s.enemy.name]

\* first BattleProvider: the victory effect on [battleState, enemy,
\* playerPokemon, updateCurrency, updatePokemonStats, addPokemonToRoster] runs
VictoryEffectRuns(old, new, t) ==
  /\ provider = "first"
  /\ (old.battleState # new.battleState \/ t.enemy \/ t.player \/ t.store)

\* the condition of the victory effect
InVictory(s) ==
  /\ s.battleState = BATTLE_STATES.VICTORY
  /\ s.enemy # Null
  /\ s.playerPokemon # Null

\* first BattleProvider, victory effect: the keys it leaves in sessionStorage;
\* outside Victory it removes the key of the current pair
VictoryKeys(old, new, t, keys) ==
  IF VictoryEffectRuns(old, new, t)
  THEN IF InVictory(new) THEN keys \cup {VictoryKey(new)}
       ELSE keys \ {VictoryKey(new)}
  ELSE keys

\* the Math.random() draws of the rewards of a victory
VictoryDraws == { [multiplier |-> 0, factor |-> 0],
                  [multiplier |-> 0, factor |-> 99] }

\* first BattleProvider: handleVictory() after the render r, and the render
\* that follows its updates of the roster and of the battle log; the opponents
\* of the model carry no isBoss flag
handleVictory(r, roster, cur, rnd) ==
  LET pp == r.state.playerPokemon
      enemyPokemon == [level |-> r.state.enemy.level, isBoss |-> FALSE]
      xpGained == calculateXp(enemyPokemon, FALSE, rnd)
      moneyGained == calculateCurrency(enemyPokemon, FALSE, rnd)
      updatedPokemon == RewardLevelUp(pp, pp.xp + xpGained)
      grew == IF updatedPokemon.level # pp.level
              THEN << Msg("grew to level!", updatedPokemon.name,
                          updatedPokemon.level) >>
              ELSE << >>
      got == IF moneyGained > 0
             THEN << Msg("You got Poke Dollars!", "", moneyGained) >>
             ELSE << >>
      logged == [r.state EXCEPT !.battleLog = @ \o grew \o got]
      after == Render(logged, logged, r.timers, Touched(FALSE, FALSE, TRUE),
                      r.page, r.showRoster, route.mode, r.adventure)
  IN [state |-> after.state,
      timers |-> after.timers,
      showRoster |-> after.showRoster,
      page |-> after.page,
      adventure |-> after.adventure,
      roster |-> updatePokemonStats(roster, updatedPokemon.id, updatedPokemon),
      currency |-> IF moneyGained > 0 THEN updateCurrency(cur, moneyGained)
                   ELSE cur,
      applied |-> 1]

\* what a step leaves once the effects have run: the render r, followed in the
\* first BattleProvider by handleVictory() when the victory effect finds no key
AfterEffects(old, r, t, roster) ==
  IF /\ VictoryEffectRuns(old, r.state, t)
     /\ InVictory(r.state)
     /\ VictoryKey(r.state) \notin sessionStorage.victory
  THEN { handleVictory(r, roster, currency, rnd) : rnd \in VictoryDraws }
  ELSE { [state |-> r.state, timers |-> r.timers,
          showRoster |-> r.showRoster, page |-> r.page,
          adventure |-> r.adventure, roster |-> roster,
          currency |-> currency, applied |-> 0] }

\* commit a step: new is the reducer state after the dispatches of the step,
\* acts the count of the player's commands, hits the count of the player's
\* hits since the enemy's last one (reset when a battle starts)
Commit(new, ts, t, roster, its, kind, arg, acts, hits) ==
  \E r \in {Settle(state, new, ts, t)} :
  \E v \in AfterEffects(state, r, t, roster) :
     /\ state' = Synced(v.state, v.roster, its)
     /\ rosterPokemon' = v.roster
     /\ items' = its
     /\ currency' = v.currency
     /\ timers' = v.timers
     /\ showRoster' = v.showRoster
     /\ page' = v.page
     /\ sessionStorage' =
          [adventure |-> v.adventure,
           victory |-> VictoryKeys(state, r.state, t, sessionStorage.victory)]
     /\ lastAction' = Last(kind, state.battleState, arg)
     /\ actions' = acts
     /\ hitsSinceEnemy' =
          IF /\ r.state.battleState = BATTLE_STATES.SELECT_POKEMON
             /\ (state.battleState # r.state.battleState \/ t.enemy)
          THEN 0 ELSE hits
     /\ rewardsApplied' =
          IF /\ r.state.battleState = BATTLE_STATES.SELECT_POKEMON
             /\ (state.battleState # r.state.battleState \/ t.enemy)
          THEN 0 ELSE rewardsApplied + v.applied
     /\ route' = IF r.started /\ route.mode = "adventure"
                 THEN [route EXCEPT !.battle = r.adventure.currentBattle]
                 ELSE route
     /\ UNCHANGED << provider, error >>

\* commit a step that leaves the item collection alone
Apply(new, ts, t, roster, kind, arg, acts, hits) ==
  Commit(new, ts, t, roster, items, kind, arg, acts, hits)

\* an entry point that returns without dispatching
Rejected(kind, arg) ==
  /\ lastAction' = Last(kind, state.battleState, arg)
  /\ UNCHANGED << state, rosterPokemon, items, currency, timers, page,
                  showRoster, route, sessionStorage, provider,
                  rewardsApplied, error, actions, hitsSinceEnemy >>

\* a dispatch that throws inside the reducer: the exception unmounts the
\* application
Crash(ts, kind) ==
  /\ error' = "TypeError"
  /\ timers' = ts
  /\ lastAction' = Last(kind, state.battleState, Null)
  /\ UNCHANGED << state, rosterPokemon, items, currency, page, showRoster,
                  route, sessionStorage, provider,
                  rewardsApplied, actions, hitsSinceEnemy >>

\* ------------------------------------------------ BattleProvider entry points
NoTouch == Touched(FALSE, FALSE, FALSE)

\* startBattle(enemy)
startBattle(enemy, kind) ==
  IF enemy = Null THEN Rejected(kind, Null)
  ELSE Apply(battleReducer(state,
               [type |-> "START_BATTLE", enemy |-> PrepareEnemy(enemy)], Null),
             timers, Touched(TRUE, FALSE, FALSE), rosterPokemon, kind, enemy,
             actions + 1, hitsSinceEnemy)

\* selectPokemon(pokemon)
selectPokemon(pokemon, kind) ==
  IF pokemon = Null THEN Rejected(kind, Null)
  ELSE Apply(battleReducer(state,
               [type |-> "SELECT_POKEMON",
                pokemon |-> PrepareSelected(pokemon)], Null),
             timers, Touched(FALSE, TRUE, FALSE), rosterPokemon, kind, pokemon,
             actions, hitsSinceEnemy)

\* attack(move) with a move supplied by the controls
attack(move, kind) ==
  IF state.playerPokemon = Null \/ state.enemy = Null
  THEN Rejected(kind, move)
  ELSE Apply(battleReducer(state, [type |-> "ATTACK", move |-> move], Null),
             Append(timers, Timer("ATTACK_COMPLETE", AttackDelay)),
             NoTouch, rosterPokemon, kind, move, actions + 1, hitsSinceEnemy)

\* healAmount with Math.min left out
HealAmountUnclamped(item, cur, hp) ==
  IF item.effect = "fullheal" THEN hp - cur ELSE item.amount

\* useItem, heal and fullheal: the HP the item restores
HealAmount(item, cur, hp) ==
  IF item.effect = "fullheal" THEN hp - cur ELSE Min(item.amount, hp - cur)

\* the result of the switch (item.effect) in useItem: the creature after the
\* effect, whether updatePokemonStats was called, and the result message
ItemEffect(item, pp) ==
  LET cur == pp.currentHp
      hp == pp.stats.hp
  IN CASE item.effect \in {"heal", "fullheal"} ->
            IF cur >= hp
            THEN [pokemon |-> pp, updated |-> FALSE,
                  message |-> Msg("HP is already full!", pp.name, 0)]
            ELSE LET healAmount == HealAmount(item, cur, hp)
                     newHp == IF item.effect = "fullheal" THEN hp
                              ELSE cur + healAmount
                 IN [pokemon |-> [pp EXCEPT !.currentHp = newHp],
                     updated |-> TRUE,
                     message |-> Msg(IF item.effect = "fullheal"
                                     THEN "fully recovered HP!"
                                     ELSE "recovered HP!", pp.name, healAmount)]
       [] item.effect = "boost" ->
            LET statName == OrStr(item.stat, "attack")
                currentStat == pp.stats[statName]
                boostedStat == (currentStat * (100 + item.amount)) \div 100
                boosted == [pp EXCEPT !.stats[statName] = boostedStat]
            IN [pokemon |->
                  IF statName = "attack"
                  THEN [boosted EXCEPT !.attackBoost = boostedStat,
                                       !.attackBoostOriginal = currentStat,
                                       !.attackBoostEndsAfterBattle = TRUE]
                  ELSE [boosted EXCEPT !.defenseBoost = boostedStat,
                                       !.defenseBoostOriginal = currentStat,
                                       !.defenseBoostEndsAfterBattle = TRUE],
                updated |-> TRUE,
                message |-> Msg("stat increased!", pp.name, item.amount)]
       [] item.effect = "status" ->
            [pokemon |-> pp, updated |-> FALSE,
             message |-> Msg("was cured!", pp.name, 0)]
       [] OTHER ->
            [pokemon |-> pp, updated |-> FALSE,
             message |-> Msg("Used item on!", pp.name, 0)]

\* useItem without the test of item.battleUsable
useItemUsableUnchecked(item, kind) ==
  IF item = Null THEN Rejected(kind, Null)
  ELSE IF state.playerPokemon = Null
  THEN /\ state' = ReduceUpdateBattleLog(state,
                     Msg("Used item!", item.name, 0))
       /\ error' = "TypeError"
       /\ lastAction' = Last(kind, state.battleState, item)
       /\ UNCHANGED << rosterPokemon, items, currency, timers, page,
                       showRoster, route, sessionStorage, provider,
                  rewardsApplied, actions, hitsSinceEnemy >>
  ELSE LET pp == state.playerPokemon
           e == ItemEffect(item, pp)
           s1 == ReduceUpdateBattleLog(state, Msg("Used item!", item.name, 0))
           s2 == IF e.updated THEN ReduceUpdatePlayerPokemon(s1, e.pokemon)
                 ELSE s1
           s3 == ReduceUpdateBattleLog(s2, e.message)
           s4 == ReduceUseItem(s3, item)
           roster == IF e.updated
                     THEN updatePokemonStats(rosterPokemon, pp.id, e.pokemon)
                     ELSE rosterPokemon
       IN Apply(s4, Append(timers, Timer("ITEM_ENEMY_ATTACK", ItemDelay)),
                Touched(FALSE, e.updated, e.updated), roster, kind, item,
                actions + 1, hitsSinceEnemy)

\* useItem(item)
useItem(item, kind) ==
  IF item = Null THEN Rejected(kind, Null)
  ELSE IF ~item.battleUsable
  THEN Apply(ReduceUpdateBattleLog(state,
               Msg("cannot be used in battle!", item.name, 0)),
             timers, NoTouch, rosterPokemon, kind, item, actions + 1,
             hitsSinceEnemy)
  ELSE IF state.playerPokemon = Null
  THEN \* state.playerPokemon.currentHp / .name throws inside the handler
       /\ state' = ReduceUpdateBattleLog(state,
                     Msg("Used item!", item.name, 0))
       /\ error' = "TypeError"
       /\ lastAction' = Last(kind, state.battleState, item)
       /\ UNCHANGED << rosterPokemon, items, currency, timers, page,
                       showRoster, route, sessionStorage, provider,
                  rewardsApplied, actions, hitsSinceEnemy >>
  ELSE LET pp == state.playerPokemon
           e == ItemEffect(item, pp)
           s1 == ReduceUpdateBattleLog(state, Msg("Used item!", item.name, 0))
           s2 == IF e.updated THEN ReduceUpdatePlayerPokemon(s1, e.pokemon)
                 ELSE s1
           s3 == ReduceUpdateBattleLog(s2, e.message)
           s4 == ReduceUseItem(s3, item)
           roster == IF e.updated
                     THEN updatePokemonStats(rosterPokemon, pp.id, e.pokemon)
                     ELSE rosterPokemon
       IN Apply(s4, Append(timers, Timer("ITEM_ENEMY_ATTACK", ItemDelay)),
                Touched(FALSE, e.updated, e.updated), roster, kind, item,
                actions + 1, hitsSinceEnemy)

\* changePokemon(pokemon) with a creature of the roster
changePokemon(pokemon, kind) ==
  LET pp == state.playerPokemon
      roster == IF pp # Null
                THEN updatePokemonStatsHp(rosterPokemon, pp.id, pp.currentHp)
                ELSE rosterPokemon
  IN Apply(battleReducer(state,
             [type |-> "CHANGE_POKEMON", pokemon |-> pokemon], Null),
           timers, Touched(FALSE, TRUE, pp # Null), roster, kind, pokemon,
           actions + 1, hitsSinceEnemy)

\* flee() without the setTimeout that dispatches BATTLE_END
fleeNoBattleEnd(kind) ==
  LET pp == state.playerPokemon
      roster == IF pp # Null
                THEN updatePokemonStatsHp(rosterPokemon, pp.id, pp.currentHp)
                ELSE rosterPokemon
  IN Apply(battleReducer(state, [type |-> "FLEE"], Null), timers,
           Touched(FALSE, FALSE, pp # Null), roster, kind, Null,
           actions + 1, hitsSinceEnemy)

\* flee()
flee(kind) ==
  LET pp == state.playerPokemon
      roster == IF pp # Null
                THEN updatePokemonStatsHp(rosterPokemon, pp.id, pp.currentHp)
                ELSE rosterPokemon
  IN Apply(battleReducer(state, [type |-> "FLEE"], Null),
           Append(timers, Timer("FLEE_BATTLE_END", FleeDelay)),
           Touched(FALSE, FALSE, pp # Null), roster, kind, Null,
           actions + 1, hitsSinceEnemy)

\* -------------------------------------------------------------------- Init
Init ==
  /\ rosterPokemon \in InitialRosters
  /\ items \in InitialItems
  /\ currency = 100
  /\ state = [initialBattleState EXCEPT !.playerRoster = rosterPokemon,
                                        !.items = items]
  /\ timers = << >>
  /\ page = "adventures"
  /\ showRoster = FALSE
  /\ route = [mode |-> "adventure", enemy |-> Null, battle |-> 0]
  /\ error = "none"
  /\ actions = 0
  /\ lastAction = Last("init", BATTLE_STATES.IDLE, Null)
  /\ hitsSinceEnemy = 0
  /\ sessionStorage = [adventure |-> Null, victory |-> {}]
  /\ provider = "second"
  /\ rewardsApplied = 0

\* ------------------------------------------------------- the player's steps
\* the player opens the Battle page; its initialisation effect starts the
\* battle when none is active
OpenBattlePage(enemy, mode) ==
  /\ error = "none"
  /\ page = "adventures"
  /\ state.battleState = BATTLE_STATES.IDLE
  /\ LET new == battleReducer(state,
                  [type |-> "START_BATTLE", enemy |-> PrepareEnemy(enemy)],
                  Null)
         adv == IF mode = "adventure" THEN AdventureData(0)
                ELSE sessionStorage.adventure
         r == Render(state, new, timers, Touched(TRUE, FALSE, FALSE),
                     "battle", FALSE, mode, adv)
     IN /\ state' = r.state
        /\ timers' = r.timers
        /\ showRoster' = r.showRoster
        /\ page' = "battle"
        /\ route' = [mode |-> mode, enemy |-> enemy, battle |-> 0]
        /\ sessionStorage' =
             [adventure |-> r.adventure,
              victory |-> VictoryKeys(state, r.state,
                                      Touched(TRUE, FALSE, FALSE),
                                      sessionStorage.victory)]
        /\ hitsSinceEnemy' = 0
        /\ rewardsApplied' = 0
        /\ lastAction' = Last("startBattle", state.battleState, enemy)
        /\ UNCHANGED << rosterPokemon, items, currency, error, actions,
                        provider >>

\* handleSelectPokemon without the check of currentHp
HandleSelectPokemonUnchecked(i) ==
  /\ error = "none"
  /\ page = "battle"
  /\ RosterScreen
  /\ i \in 1..Len(rosterPokemon)
  /\ selectPokemon(rosterPokemon[i], "selectPokemon")

\* Battle page: handleSelectPokemon(pokemon) on the roster screen
HandleSelectPokemon(i) ==
  /\ error = "none"
  /\ page = "battle"
  /\ RosterScreen
  /\ i \in 1..Len(rosterPokemon)
  /\ IF rosterPokemon[i].currentHp <= 0
     THEN Rejected("selectRejected", rosterPokemon[i])
     ELSE selectPokemon(rosterPokemon[i], "selectPokemon")

\* BattleControls: the ATTACK button, disabled={!isPlayerTurn || !canFight}
ClickAttack ==
  /\ error = "none"
  /\ ControlsShown
  /\ state.isPlayerTurn
  /\ canFight
  /\ actions < MaxActions
  /\ attack(generateTypeBasedMove(state.playerPokemon), "attack")

\* BattleControls: an item of the ITEM submenu, which lists the items with
\* quantity > 0; disabled={!isPlayerTurn || item.battleUsable === false}
ClickItem(i) ==
  /\ error = "none"
  /\ ControlsShown
  /\ state.isPlayerTurn
  /\ actions < MaxActions
  /\ i \in 1..Len(items)
  /\ items[i].quantity > 0
  /\ items[i].battleUsable
  /\ useItem(items[i], "useItem")

\* BattleControls: a creature of the POKEMON submenu
ClickPokemon(i) ==
  /\ error = "none"
  /\ ControlsShown
  /\ state.isPlayerTurn
  /\ actions < MaxActions
  /\ i \in 1..Len(state.playerRoster)
  /\ IF state.playerPokemon = Null THEN TRUE
     ELSE state.playerRoster[i].id # state.playerPokemon.id
  /\ state.playerRoster[i].currentHp > 0
  /\ changePokemon(state.playerRoster[i], "changePokemon")

\* BattleControls: the RUN button
ClickRun ==
  /\ error = "none"
  /\ ControlsShown
  /\ state.isPlayerTurn
  /\ actions < MaxActions
  /\ flee("flee")

\* what a use of RosterContextProvider.useItem was: the item, the id of the
\* creature and what the call returned
BagUse(item, pokemonId, result) ==
  [item |-> item, target |-> pokemonId, returned |-> result.returned,
   success |-> result.success]

\* the step of a call of RosterContextProvider.useItem whose result is known
RosterUseItemStep(item, pokemonId, result, kind) ==
  Commit(state, timers,
         Touched(FALSE, FALSE,
                 result.roster # rosterPokemon \/ result.items # items),
         result.roster, result.items, kind, BagUse(item, pokemonId, result),
         actions + 1, hitsSinceEnemy)

\* Bag on the Adventures page: USE on an item (shown for levelup and revive
\* items with quantity > 0), then a creature of the selection list, whose
\* button is disabled for a revive on a creature with currentHp > 0 and for
\* another item on a fainted creature
BagUseItem(i, j) ==
  /\ error = "none"
  /\ page = "adventures"
  /\ actions < MaxActions
  /\ i \in 1..Len(items)
  /\ j \in 1..Len(rosterPokemon)
  /\ items[i].effect \in {"levelup", "revive"}
  /\ items[i].quantity > 0
  /\ IF items[i].effect = "revive" THEN rosterPokemon[j].currentHp <= 0
     ELSE rosterPokemon[j].currentHp > 0
  /\ RosterUseItemStep(items[i], rosterPokemon[j].id,
       RosterUseItem(items, rosterPokemon, items[i].id, rosterPokemon[j].id),
       "bagUseItem")

\* ------------------------------------------------------------------ timers
\* timer i is due and no timer that was set earlier with a delay at most as
\* long is still due
Due(i) ==
  /\ i \in 1..Len(timers)
  /\ timers[i].remaining = 0
  /\ \A j \in 1..(i - 1) :
       ~(timers[j].remaining = 0 /\ timers[j].delay <= timers[i].delay)

Without(i) == [j \in 1..(Len(timers) - 1) |->
                 IF j < i THEN timers[j] ELSE timers[j + 1]]

\* time passes: 500 ms, the greatest step that divides every duration
Tick ==
  /\ error = "none"
  /\ timers # << >>
  /\ \A i \in 1..Len(timers) : timers[i].remaining > 0
  /\ timers' = [i \in 1..Len(timers) |->
                  [timers[i] EXCEPT !.remaining = @ - 500]]
  /\ lastAction' = Last("tick", state.battleState, Null)
  /\ UNCHANGED << state, rosterPokemon, items, currency, page, showRoster,
                  route, sessionStorage, provider,
                  rewardsApplied, error, actions, hitsSinceEnemy >>

\* attack(): setTimeout(() => dispatch(ATTACK_COMPLETE), 1000)
FireAttackComplete(i) ==
  /\ error = "none"
  /\ Due(i)
  /\ timers[i].kind = "ATTACK_COMPLETE"
  /\ IF ReducerThrows(state, [type |-> "ATTACK_COMPLETE"])
     THEN Crash(Without(i), "ATTACK_COMPLETE")
     ELSE \E new \in {battleReducer(state, [type |-> "ATTACK_COMPLETE"], rnd) :
                         rnd \in RandomDraws} :
            Apply(new, Without(i), Touched(TRUE, FALSE, FALSE), rosterPokemon,
                  "ATTACK_COMPLETE", Null, actions,
                  Min(2, hitsSinceEnemy + 1))

\* useItem(): setTimeout(() => dispatch(ENEMY_ATTACK), 1500)
FireItemEnemyAttack(i) ==
  /\ error = "none"
  /\ Due(i)
  /\ timers[i].kind = "ITEM_ENEMY_ATTACK"
  /\ IF ReducerThrows(state, [type |-> "ENEMY_ATTACK"])
     THEN Crash(Without(i), "ENEMY_ATTACK")
     ELSE Apply(battleReducer(state, [type |-> "ENEMY_ATTACK"], Null),
                Without(i), NoTouch, rosterPokemon, "ENEMY_ATTACK", Null,
                actions, hitsSinceEnemy)

\* enemy-turn effect: the outer timer dispatches ENEMY_ATTACK and sets the
\* inner timer
FireEnemyTurn(i) ==
  /\ error = "none"
  /\ Due(i)
  /\ timers[i].kind = "ENEMY_TURN"
  /\ LET ts == Append(Without(i),
                      Timer("ENEMY_ATTACK_COMPLETE", EnemyCompleteDelay))
     IN IF ReducerThrows(state, [type |-> "ENEMY_ATTACK"])
        THEN Crash(ts, "ENEMY_ATTACK")
        ELSE Apply(battleReducer(state, [type |-> "ENEMY_ATTACK"], Null),
                   ts, NoTouch, rosterPokemon, "ENEMY_ATTACK", Null,
                   actions, hitsSinceEnemy)

\* enemy-turn effect: the inner timer dispatches ENEMY_ATTACK_COMPLETE
FireEnemyAttackComplete(i) ==
  /\ error = "none"
  /\ Due(i)
  /\ timers[i].kind = "ENEMY_ATTACK_COMPLETE"
  /\ IF ReducerThrows(state, [type |-> "ENEMY_ATTACK_COMPLETE"])
     THEN Crash(Without(i), "ENEMY_ATTACK_COMPLETE")
     ELSE \E new \in {battleReducer(state,
                           [type |-> "ENEMY_ATTACK_COMPLETE"], rnd) :
                         rnd \in RandomDraws} :
            Apply(new, Without(i), Touched(FALSE, TRUE, FALSE), rosterPokemon,
                  "ENEMY_ATTACK_COMPLETE", Null, actions, 0)

\* flee(): setTimeout(() => dispatch(BATTLE_END), 1000)
FireFleeBattleEnd(i) ==
  /\ error = "none"
  /\ Due(i)
  /\ timers[i].kind = "FLEE_BATTLE_END"
  /\ Apply(battleReducer(state, [type |-> "BATTLE_END"], Null),
           Without(i),
           Touched(state.enemy # Null, state.playerPokemon # Null, FALSE),
           rosterPokemon, "BATTLE_END", Null, actions, hitsSinceEnemy)

\* Battle page: the Victory / Defeat timer calls endBattle() and navigates to
\* the adventures page, which unmounts the Battle page
FirePageEnd(i) ==
  /\ error = "none"
  /\ Due(i)
  /\ timers[i].kind = "PAGE_END"
  /\ LET pp == state.playerPokemon
         roster == IF pp # Null
                   THEN updatePokemonStatsHp(rosterPokemon, pp.id, pp.currentHp)
                   ELSE rosterPokemon
         new == battleReducer(state, [type |-> "BATTLE_END"], Null)
     IN /\ state' = Synced(new, roster, items)
        /\ rosterPokemon' = roster
        /\ timers' = RemoveKind(EnemyTurnEffect(state, new, Without(i)),
                                "PAGE_END")
        /\ page' = "adventures"
        /\ showRoster' = FALSE
        /\ lastAction' = Last("endBattle", state.battleState, Null)
        /\ UNCHANGED << items, currency, route, sessionStorage, provider,
                        rewardsApplied, error, actions, hitsSinceEnemy >>

\* Battle page: the Victory timer of an adventure that goes on calls
\* endBattle() and navigates to the battle page of the adventure, which stays
\* mounted: its initialisation effect starts the battle the record stands at
FirePageNext(i) ==
  /\ error = "none"
  /\ Due(i)
  /\ timers[i].kind = "PAGE_NEXT"
  /\ LET pp == state.playerPokemon
         roster == IF pp # Null
                   THEN updatePokemonStatsHp(rosterPokemon, pp.id, pp.currentHp)
                   ELSE rosterPokemon
     IN Apply(battleReducer(state, [type |-> "BATTLE_END"], Null),
              Without(i),
              Touched(state.enemy # Null, pp # Null, pp # Null),
              roster, "endBattle", Null, actions, hitsSinceEnemy)

\* -------------------------------------------------------------------- Next
Next ==
  \/ \E enemy \in RouteEnemies, mode \in RouteModes :
       OpenBattlePage(enemy, mode)
  \/ \E i \in 1..Len(rosterPokemon) : HandleSelectPokemon(i)
  \/ ClickAttack
  \/ \E i \in 1..Len(items) : ClickItem(i)
  \/ \E i \in 1..Len(state.playerRoster) : ClickPokemon(i)
  \/ ClickRun
  \/ \E i \in 1..Len(items), j \in 1..Len(rosterPokemon) : BagUseItem(i, j)
  \/ Tick
  \/ \E i \in 1..Len(timers) : FireAttackComplete(i)
  \/ \E i \in 1..Len(timers) : FireItemEnemyAttack(i)
  \/ \E i \in 1..Len(timers) : FireEnemyTurn(i)
  \/ \E i \in 1..Len(timers) : FireEnemyAttackComplete(i)
  \/ \E i \in 1..Len(timers) : FireFleeBattleEnd(i)
  \/ \E i \in 1..Len(timers) : FirePageEnd(i)
  \/ \E i \in 1..Len(timers) : FirePageNext(i)

Spec == Init /\ [][Next]_vars

\* a step of the event loop: an expired timer callback runs, or time passes
TimerStep ==
  \/ Tick
  \/ \E i \in 1..Len(timers) : FireAttackComplete(i)
  \/ \E i \in 1..Len(timers) : FireItemEnemyAttack(i)
  \/ \E i \in 1..Len(timers) : FireEnemyTurn(i)
  \/ \E i \in 1..Len(timers) : FireEnemyAttackComplete(i)
  \/ \E i \in 1..Len(timers) : FireFleeBattleEnd(i)
  \/ \E i \in 1..Len(timers) : FirePageEnd(i)
  \/ \E i \in 1..Len(timers) : FirePageNext(i)

\* the event loop keeps running while a timer is pending; the player is never
\* obliged to click
SpecLive == Spec /\ WF_vars(TimerStep)

\* ------------------------------------------- the entry points called directly
\* startBattle called on the context value, whatever the battle state
CallStartBattle(enemy) ==
  /\ error = "none"
  /\ actions < MaxActions
  /\ startBattle(enemy, "startBattle")

\* useItem called on the context value with an item the ITEM submenu does not
\* offer: one flagged not battle-usable, one of quantity 0, or none
CallUseItem(item) ==
  /\ error = "none"
  /\ actions < MaxActions
  /\ useItem(item, "useItem")

\* changePokemon called on the context value with a creature of the roster,
\* whatever its currentHp and whether or not it is the active one
CallChangePokemon(i) ==
  /\ error = "none"
  /\ actions < MaxActions
  /\ i \in 1..Len(state.playerRoster)
  /\ changePokemon(state.playerRoster[i], "changePokemon")

NextApi ==
  \/ Next
  \/ \E enemy \in EnemyInputs \cup {Null} : CallStartBattle(enemy)
  \/ \E item \in {items[i] : i \in {j \in 1..Len(items) :
                                       ~items[j].battleUsable}}
                  \cup {Potion(0), Null} :
       CallUseItem(item)
  \/ \E i \in 1..Len(state.playerRoster) : CallChangePokemon(i)

SpecApi == Init /\ [][NextApi]_vars

\* ------------------------------------------------- a session between battles
\* rosters as battles leave them: a creature that fainted and was switched out
\* or saved by endBattle has currentHp 0 in the roster
BagRosters ==
  { << Pikachu(0), Zubat(40) >>, << Pikachu(1), Zubat(0) >>,
    << Pikachu(1), Zubat(40) >> }

\* item collections with no Revive and with two
BagItems ==
  { << Potion(1), XAttack(1), RareCandy(1), Revive(q) >> : q \in {0, 2} }

InitBag ==
  /\ rosterPokemon \in BagRosters
  /\ items \in BagItems
  /\ currency = 100
  /\ state = [initialBattleState EXCEPT !.playerRoster = rosterPokemon,
                                        !.items = items]
  /\ timers = << >>
  /\ page = "adventures"
  /\ showRoster = FALSE
  /\ route = [mode |-> "adventure", enemy |-> Null, battle |-> 0]
  /\ error = "none"
  /\ actions = 0
  /\ lastAction = Last("init", BATTLE_STATES.IDLE, Null)
  /\ hitsSinceEnemy = 0
  /\ sessionStorage = [adventure |-> Null, victory |-> {}]
  /\ provider = "second"
  /\ rewardsApplied = 0

\* useItem of RosterContextProvider called through useItems(), with any item
\* and any creature of the roster
CallRosterUseItem(i, j) ==
  /\ error = "none"
  /\ actions < MaxActions
  /\ i \in 1..Len(items)
  /\ j \in 1..Len(rosterPokemon)
  /\ RosterUseItemStep(items[i], rosterPokemon[j].id,
       RosterUseItem(items, rosterPokemon, items[i].id, rosterPokemon[j].id),
       "rosterUseItem")

NextBag ==
  \/ Next
  \/ \E i \in 1..Len(items), j \in 1..Len(rosterPokemon) :
       CallRosterUseItem(i, j)

SpecBag == InitBag /\ [][NextBag]_vars

\* ------------------------------------------ calls of RosterContextProvider
\* a creature as the roster page adds it: id, name, stats
Starter(id, name, type, level, xp) ==
  [Creature(id, name, type, level, 45, 49, 49, 45,
            [name |-> "Tackle", type |-> type, power |-> 50 + level * 2])
     EXCEPT !.xp = xp]

\* a full roster of six
FullRoster ==
  << Pikachu(35), Zubat(40), Starter(1, "bulbasaur", "grass", 1, 0),
     Starter(4, "charmander", "fire", 5, 0),
     Starter(7, "squirtle", "water", 5, 0),
     Starter(10, "caterpie", "bug", 5, 0) >>

\* rosters between battles: a creature of level 1, one of level 24 short of
\* its threshold, one of level 25 whose experience has kept growing, and a
\* full roster
StoreRosters ==
  { << Starter(1, "bulbasaur", "grass", 1, 0), Pikachu(35) >>,
    << Starter(4, "charmander", "fire", 24, 2350) >>,
    << Starter(7, "squirtle", "water", 25, 2450) >>,
    FullRoster }

StoreItems ==
  { << Potion(0), XAttack(1), RareCandy(1), Revive(0) >>,
    << Potion(3), SuperPotion(1), XAttack(1), Revive(0) >> }

\* the adventures whose completion VictoryScreen rewards
AdventureTypes == {"random", "plant", "safari"}

\* calculateXp and calculateCurrency for the boss that ends an adventure
BossXp == 825

BossCurrency == 60

\* the creatures handed to addToRoster and addPokemonToRoster: one that is in
\* every roster of StoreRosters or not, by id
AddInputs ==
  { Starter(1, "bulbasaur", "grass", 0, 0),
    Starter(4, "charmander", "fire", 0, 0),
    Starter(16, "pidgey", "normal", 0, 0) }

\* calculateXp: a wild opponent of level 5 and a boss of level 25, at the
\* upper end of the random factors
XpRewards == {27, 825}

\* calculateCurrency for the same two opponents
CurrencyRewards == {0, 60}

\* the amounts handed to updateCurrency and addExperience
CurrencyAmounts == {0 - 150, 0 - 50, 30}

ExperienceAmounts == {60, 120}

InitStore ==
  /\ rosterPokemon \in StoreRosters
  /\ items \in StoreItems
  /\ currency \in {0, 100}
  /\ state = [initialBattleState EXCEPT !.playerRoster = rosterPokemon,
                                        !.items = items]
  /\ timers = << >>
  /\ page = "adventures"
  /\ showRoster = FALSE
  /\ route = [mode |-> "adventure", enemy |-> Null, battle |-> 0]
  /\ error = "none"
  /\ actions = 0
  /\ lastAction = Last("init", BATTLE_STATES.IDLE, Null)
  /\ hitsSinceEnemy = 0
  /\ sessionStorage = [adventure |-> Null, victory |-> {}]
  /\ provider = "second"
  /\ rewardsApplied = 0

\* a call that leaves the roster, the items and the balance given; the
\* BattleProvider effects copy roster and items into the reducer state
StoreStep(roster, its, cur, kind, arg) ==
  /\ error = "none"
  /\ actions < MaxActions
  /\ rosterPokemon' = roster
  /\ items' = its
  /\ currency' = cur
  /\ state' = Synced(state, roster, its)
  /\ actions' = actions + 1
  /\ lastAction' = Last(kind, state.battleState, arg)
  /\ UNCHANGED << timers, page, showRoster, route, sessionStorage, provider,
                  rewardsApplied, error, hitsSinceEnemy >>

CallVictoryReward(j, xpGained, moneyGained) ==
  /\ j \in 1..Len(rosterPokemon)
  /\ StoreStep(VictoryReward(rosterPokemon, rosterPokemon[j], xpGained),
               items,
               IF moneyGained > 0 THEN updateCurrency(currency, moneyGained)
               ELSE currency,
               "victoryReward",
               [id |-> rosterPokemon[j].id, xp |-> xpGained,
                money |-> moneyGained])

\* VictoryScreen mounted for the victory over the boss of the last battle of
\* an adventure: its reward effect runs once
CallAdventureRewards(j, xpGained, currencyGained, adventureType) ==
  /\ j \in 1..Len(rosterPokemon)
  /\ \E r \in {VictoryScreenRewards(rosterPokemon, items, currency,
                                     rosterPokemon[j], xpGained,
                                     currencyGained, adventureType)} :
       StoreStep(r.roster, r.items, r.currency, "adventureRewards",
                 [id |-> rosterPokemon[j].id, xp |-> xpGained,
                  money |-> currencyGained, adventureType |-> adventureType])

CallAddExperience(j, amount) ==
  /\ j \in 1..Len(rosterPokemon)
  /\ StoreStep(addExperience(rosterPokemon, rosterPokemon[j].id, amount),
               items, currency, "addExperience",
               [id |-> rosterPokemon[j].id, xp |-> amount])

CallLevelUpPokemon(j) ==
  /\ j \in 1..Len(rosterPokemon)
  /\ StoreStep(levelUpPokemon(rosterPokemon, rosterPokemon[j].id),
               items, currency, "levelUpPokemon",
               [id |-> rosterPokemon[j].id])

CallUpdateCurrency(amount) ==
  StoreStep(rosterPokemon, items, updateCurrency(currency, amount),
            "updateCurrency", [amount |-> amount])

CallBuyItem(i) ==
  /\ i \in 1..Len(items)
  /\ \E r \in {buyItem(items, currency, items[i].id)} :
       StoreStep(rosterPokemon, r.items, r.currency, "buyItem",
                 [id |-> items[i].id, returned |-> r.returned])

\* buyItem called twice before RosterContextProvider renders again
CallBuyItemTwice(i, k) ==
  /\ i \in 1..Len(items)
  /\ k \in 1..Len(items)
  /\ \E first \in {buyItem(items, currency, items[i].id)} :
     \E second \in {buyItemAgain(items, currency, first, items[k].id)} :
       StoreStep(rosterPokemon, second.items, second.currency, "buyItemTwice",
                 [first |-> [id |-> items[i].id, price |-> items[i].price,
                             returned |-> first.returned],
                  second |-> [id |-> items[k].id, price |-> items[k].price,
                              returned |-> second.returned]])

CallUpdateItemQuantity(i, change) ==
  /\ i \in 1..Len(items)
  /\ StoreStep(rosterPokemon, updateItemQuantity(items, items[i].id, change),
               currency, "updateItemQuantity",
               [id |-> items[i].id, change |-> change])

CallStoreUseItem(i, j) ==
  /\ i \in 1..Len(items)
  /\ j \in 1..Len(rosterPokemon)
  /\ \E r \in {RosterUseItem(items, rosterPokemon, items[i].id,
                              rosterPokemon[j].id)} :
       StoreStep(r.roster, r.items, currency, "rosterUseItem",
                 [id |-> items[i].id, pokemonId |-> rosterPokemon[j].id,
                  returned |-> r.returned, success |-> r.success])

CallAddToRoster(pokemon) ==
  StoreStep(addToRoster(rosterPokemon, pokemon), items, currency,
            "addToRoster", [id |-> pokemon.id])

CallAddPokemonToRoster(pokemon) ==
  StoreStep(addPokemonToRoster(rosterPokemon, pokemon), items, currency,
            "addPokemonToRoster", [id |-> pokemon.id])

CallRemovePokemonFromRoster(j) ==
  /\ j \in 1..Len(rosterPokemon)
  /\ StoreStep(removePokemonFromRoster(rosterPokemon, rosterPokemon[j].id),
               items, currency, "removePokemonFromRoster",
               [id |-> rosterPokemon[j].id])

NextStore ==
  \/ \E j \in 1..Len(rosterPokemon), xpGained \in XpRewards,
        moneyGained \in CurrencyRewards :
       CallVictoryReward(j, xpGained, moneyGained)
  \/ \E j \in 1..Len(rosterPokemon), adventureType \in AdventureTypes :
       CallAdventureRewards(j, BossXp, BossCurrency, adventureType)
  \/ \E j \in 1..Len(rosterPokemon), amount \in ExperienceAmounts :
       CallAddExperience(j, amount)
  \/ \E j \in 1..Len(rosterPokemon) : CallLevelUpPokemon(j)
  \/ \E amount \in CurrencyAmounts : CallUpdateCurrency(amount)
  \/ \E i \in 1..Len(items) : CallBuyItem(i)
  \/ \E i \in 1..Len(items), k \in 1..Len(items) : CallBuyItemTwice(i, k)
  \/ \E i \in 1..Len(items), change \in {0 - 2, 1} :
       CallUpdateItemQuantity(i, change)
  \/ \E i \in 1..Len(items), j \in 1..Len(rosterPokemon) :
       CallStoreUseItem(i, j)
  \/ \E pokemon \in AddInputs : CallAddToRoster(pokemon)
  \/ \E pokemon \in AddInputs : CallAddPokemonToRoster(pokemon)
  \/ \E j \in 1..Len(rosterPokemon) : CallRemovePokemonFromRoster(j)

SpecStore == InitStore /\ [][NextStore]_vars

\* ------------------------------------------------- calls of the utilities
\* the 18 elements
Elements ==
  {"normal", "fire", "water", "grass", "electric", "ice", "fighting",
   "poison", "ground", "flying", "psychic", "bug", "rock", "ghost", "dragon",
   "dark", "steel", "fairy"}

\* the type strings handed to getTypeEffectiveness: the elements, some of
\* them in other letter case, a string that is no element and the empty string
TypeInputs == Elements \cup {"Fire", "GRASS", "Normal", "Ghost", "shadow", ""}

\* a move as handed to calculateDamage; type "" and power 0 are absent fields
Move(name, type, power) == [name |-> name, type |-> type, power |-> power]

\* the attackers handed to calculateDamage: roster creatures, a prepared
\* opponent, one without level and stats, and none
AttackerInputs ==
  { Pikachu(35), Zubat(40), PrepareEnemy(RouteEnemy("Rattata", "normal", 5)),
    Opponent("Wild Pokemon", "normal", 0, 0, FALSE, 0, 0, 0), Null }

\* the defenders: also a ghost and a ground opponent, which are immune to
\* normal and to electric moves, and one without level and stats
DefenderInputs ==
  { Pikachu(35), Zubat(40), PrepareEnemy(RouteEnemy("Gastly", "Ghost", 5)),
    PrepareEnemy(RouteEnemy("Diglett", "ground", 1)),
    Opponent("Wild Pokemon", "normal", 0, 0, FALSE, 0, 0, 0), Null }

MoveInputs ==
  { Move("Tackle", "normal", 40), Move("Thunder Shock", "electric", 60),
    Move("Ember", "fire", 0), Move("Struggle", "", 0), Null }

\* the utilities are pure: each call is made on the state after construction
\* a call of calculateDamage; its arguments and result are kept in lastAction
CallCalculateDamage(attacker, defender, move, rnd) ==
  /\ lastAction.kind = "init"
  /\ lastAction' = Last("calculateDamage", state.battleState,
                        [attacker |-> attacker, defender |-> defender,
                         move |-> move,
                         result |-> calculateDamage(attacker, defender, move,
                                                    rnd)])
  /\ UNCHANGED << state, rosterPokemon, items, currency, timers, page,
                  showRoster, route, sessionStorage, provider,
                  rewardsApplied, error, actions, hitsSinceEnemy >>

\* a call of getTypeEffectiveness
CallGetTypeEffectiveness(attackType, defenderType) ==
  /\ lastAction.kind = "init"
  /\ lastAction' = Last("getTypeEffectiveness", state.battleState,
                        [attackType |-> attackType,
                         defenderType |-> defenderType,
                         result |-> getTypeEffectiveness(attackType,
                                                         defenderType)])
  /\ UNCHANGED << state, rosterPokemon, items, currency, timers, page,
                  showRoster, route, sessionStorage, provider,
                  rewardsApplied, error, actions, hitsSinceEnemy >>

\* the opponents handed to the reward functions: level 0 is an absent level
RewardEnemies ==
  { [level |-> l, isBoss |-> b] : l \in {0, 1, 5, 10, 11, 25, 26, 41, 50},
                                 b \in BOOLEAN } \cup {Null}

\* a call of calculateXp and calculateCurrency for one opponent
CallCalculateRewards(enemyPokemon, isBoss, rnd) ==
  /\ lastAction.kind = "init"
  /\ lastAction' = Last("calculateRewards", state.battleState,
                        [enemyPokemon |-> enemyPokemon, isBoss |-> isBoss,
                         xp |-> calculateXp(enemyPokemon, isBoss, rnd),
                         currency |-> calculateCurrency(enemyPokemon, isBoss,
                                                        rnd),
                         xpTiered |-> calculateXpTiered(enemyPokemon, isBoss),
                         currencyTiered |->
                           calculateCurrencyTiered(enemyPokemon, isBoss)])
  /\ UNCHANGED << state, rosterPokemon, items, currency, timers, page,
                  showRoster, route, sessionStorage, provider,
                  rewardsApplied, error, actions, hitsSinceEnemy >>

\* the levels of a creature
MoveLevels == 1..50

\* a call of generateDefaultMove in each of its versions
CallGenerateDefaultMove(type, level, isEnemy) ==
  /\ lastAction.kind = "init"
  /\ lastAction' = Last("generateDefaultMove", state.battleState,
                        [type |-> type, level |-> level, isEnemy |-> isEnemy,
                         scaled |-> generateDefaultMoveScaled(type, level,
                                                              isEnemy),
                         tiered |-> generateDefaultMoveTiered(type, level,
                                                              isEnemy),
                         plain |-> generateDefaultMove(type, level)])
  /\ UNCHANGED << state, rosterPokemon, items, currency, timers, page,
                  showRoster, route, sessionStorage, provider,
                  rewardsApplied, error, actions, hitsSinceEnemy >>

NextUtils ==
  \/ \E type \in Elements, level \in MoveLevels, isEnemy \in BOOLEAN :
       CallGenerateDefaultMove(type, level, isEnemy)
  \/ \E enemyPokemon \in RewardEnemies, isBoss \in BOOLEAN,
        rnd \in RewardDraws :
       CallCalculateRewards(enemyPokemon, isBoss, rnd)
  \/ \E attacker \in AttackerInputs, defender \in DefenderInputs,
        move \in MoveInputs, rnd \in RandomDraws :
       CallCalculateDamage(attacker, defender, move, rnd)
  \/ \E attackType \in TypeInputs, defenderType \in TypeInputs :
       CallGetTypeEffectiveness(attackType, defenderType)

SpecUtils == Init /\ [][NextUtils]_vars

\* ================================================================== claims

\* C1: the player cannot act twice before the opponent responds; in
\* particular the opponent never takes a second damage application of
\* ATTACK_COMPLETE before an ENEMY_ATTACK_COMPLETE has occurred.
C1_NoSecondHitBeforeEnemy == hitsSinceEnemy <= 1

\* C2: a scheduled follow-up event (ATTACK_COMPLETE, ENEMY_ATTACK,
\* ENEMY_ATTACK_COMPLETE, BATTLE_END) that fires after the battle has left the
\* state that scheduled it leaves the battle state unchanged and raises no
\* error.
C2_LateTimersAreNoOps ==
  [][LET kind == lastAction'.kind
         phase == state.battleState
         late ==
           \/ kind = "ATTACK_COMPLETE" /\ phase # BATTLE_STATES.ATTACKING
           \/ kind = "ENEMY_ATTACK"
                /\ phase \notin {BATTLE_STATES.USE_ITEM, BATTLE_STATES.ENEMY_TURN}
           \/ kind = "ENEMY_ATTACK_COMPLETE"
                /\ phase # BATTLE_STATES.ENEMY_TURN
           \/ kind = "BATTLE_END" /\ phase # BATTLE_STATES.FLEEING
     IN late => (state' = state /\ error' = "none")]_vars

\* C3: when the enemy's attack brings the active creature to currentHp 0 and
\* no other roster member has currentHp > 0, the battle state becomes Defeat,
\* not ChangingCreature.
C3_LastCreatureFaintsIsDefeat ==
  [][IF /\ lastAction'.kind = "ENEMY_ATTACK_COMPLETE"
        /\ error' = "none"
        /\ state.playerPokemon # Null
        /\ state'.playerPokemon # Null
     THEN (/\ state.playerPokemon.currentHp > 0
           /\ state'.playerPokemon.currentHp = 0
           /\ \A i \in 1..Len(rosterPokemon) :
                rosterPokemon[i].id # state.playerPokemon.id
                  => rosterPokemon[i].currentHp <= 0)
          => state'.battleState = BATTLE_STATES.DEFEAT
     ELSE TRUE]_vars

\* C4: attack, useItem and flee invoked in a state other than PlayerTurn leave
\* the phase, both combatants' HP, the turn owner and the roster unchanged.
C4_ActionsOnlyInPlayerTurn ==
  [][(/\ lastAction'.kind \in {"attack", "useItem", "flee"}
      /\ lastAction'.before # BATTLE_STATES.PLAYER_TURN)
     => /\ state'.battleState = state.battleState
        /\ state'.enemy = state.enemy
        /\ state'.playerPokemon = state.playerPokemon
        /\ state'.isPlayerTurn = state.isPlayerTurn
        /\ rosterPokemon' = rosterPokemon]_vars

\* C5: in PlayerTurn the flag isPlayerTurn is true and in EnemyTurn it is
\* false.
C5_TurnOwner ==
  /\ state.battleState = BATTLE_STATES.PLAYER_TURN => state.isPlayerTurn
  /\ state.battleState = BATTLE_STATES.ENEMY_TURN => ~state.isPlayerTurn

\* C6: START_BATTLE issued in a state other than Idle leaves the enemy, the
\* log, the phase and the active creature unchanged.
C6_StartBattleOnlyFromIdle ==
  [][(/\ lastAction'.kind = "startBattle"
      /\ lastAction'.before # BATTLE_STATES.IDLE)
     => /\ state'.enemy = state.enemy
        /\ state'.battleLog = state.battleLog
        /\ state'.battleState = state.battleState
        /\ state'.playerPokemon = state.playerPokemon]_vars

\* C7: startBattle from Idle with a non-null opponent sets the opponent, with
\* currentHp, stats and level defaulted when absent so that currentHp > 0,
\* moves to SelectCreature, makes the log exactly the encounter line and gives
\* the turn to the player; with a null opponent nothing changes.
C7_StartBattleFromIdle ==
  [][(/\ lastAction'.kind = "startBattle"
      /\ lastAction'.before = BATTLE_STATES.IDLE)
     => LET arg == lastAction'.arg
        IN IF arg = Null
           THEN UNCHANGED << state, rosterPokemon, items, currency, timers,
                             error >>
           ELSE /\ state'.enemy # Null
                /\ state'.enemy.name = arg.name
                /\ state'.enemy.type = arg.type
                /\ state'.enemy.currentHp > 0
                /\ state'.enemy.level > 0
                /\ state'.enemy.stats.hp > 0
                /\ state'.enemy.stats.attack > 0
                /\ state'.enemy.stats.defense > 0
                /\ arg.currentHp > 0
                     => state'.enemy.currentHp = arg.currentHp
                /\ arg.level > 0 => state'.enemy.level = arg.level
                /\ arg.hasStats => state'.enemy.stats = arg.stats
                /\ (arg.hasStats /\ arg.currentHp = 0)
                     => state'.enemy.currentHp = arg.stats.hp
                /\ state'.battleState = BATTLE_STATES.SELECT_POKEMON
                /\ state'.battleLog = << Msg("A wild appeared!", arg.name, 0) >>
                /\ state'.isPlayerTurn]_vars

\* C7 witness: a battle was started from Idle with an opponent that carried
\* neither currentHp nor stats nor level.
C7_Witness ==
  /\ lastAction.kind = "startBattle"
  /\ lastAction.before = BATTLE_STATES.IDLE
  /\ lastAction.arg # Null
  /\ state.enemy # Null
  /\ IF lastAction.arg # Null /\ state.enemy # Null
     THEN /\ ~lastAction.arg.hasStats
          /\ lastAction.arg.currentHp = 0
          /\ state.enemy.currentHp = 50
          /\ state.battleState = BATTLE_STATES.SELECT_POKEMON
     ELSE FALSE

C9_AttackIsTwoStep ==
  [][/\ (/\ lastAction'.kind = "attack"
         /\ lastAction'.before = BATTLE_STATES.PLAYER_TURN)
          => /\ state'.battleState = BATTLE_STATES.ATTACKING
             /\ state'.battleLog =
                  Append(state.battleLog,
                         Msg2("used!", state.playerPokemon.name,
                              lastAction'.arg.name))
             /\ state'.enemy = state.enemy
             /\ state'.playerPokemon = state.playerPokemon
             /\ rosterPokemon' = rosterPokemon
     /\ (/\ lastAction'.kind = "ATTACK_COMPLETE"
         /\ lastAction'.before = BATTLE_STATES.ATTACKING)
          => /\ error' = "none"
             /\ \E rnd \in RandomDraws :
                  state'.enemy.currentHp =
                    Max(0, state.enemy.currentHp
                             - calculateDamage(state.playerPokemon, state.enemy,
                                               state.playerMove, rnd).damage)
             /\ state'.playerPokemon = state.playerPokemon
             /\ LET fainted == Msg("Enemy fainted!", state.enemy.name, 0)
                    logged == \E i \in (Len(state.battleLog) + 1)
                                         ..Len(state'.battleLog) :
                                state'.battleLog[i] = fainted
                IN IF state'.enemy.currentHp = 0
                   THEN state'.battleState = BATTLE_STATES.VICTORY /\ logged
                   ELSE /\ state'.battleState = BATTLE_STATES.ENEMY_TURN
                        /\ ~logged]_vars

\* C9 witness: an ATTACK_COMPLETE that followed an attack brought the opponent
\* to 0 HP and the battle to Victory.
C9_Witness ==
  /\ lastAction.kind = "ATTACK_COMPLETE"
  /\ lastAction.before = BATTLE_STATES.ATTACKING
  /\ state.battleState = BATTLE_STATES.VICTORY
  /\ IF state.enemy # Null THEN state.enemy.currentHp = 0 ELSE FALSE

\* C10: in ChangingCreature, with another roster member still alive, attack
\* and useItem change neither HP, items nor phase.
C10_NoActionWhileChanging ==
  [][IF /\ state.battleState = BATTLE_STATES.CHANGING_POKEMON
        /\ lastAction'.kind \in {"attack", "useItem"}
        /\ state.playerPokemon # Null
     THEN (\E i \in 1..Len(rosterPokemon) :
             /\ rosterPokemon[i].id # state.playerPokemon.id
             /\ rosterPokemon[i].currentHp > 0)
          => /\ state'.battleState = state.battleState
             /\ state'.playerPokemon = state.playerPokemon
             /\ state'.enemy = state.enemy
             /\ items' = items
             /\ rosterPokemon' = rosterPokemon
     ELSE TRUE]_vars

\* C11: a heal item used in battle on the active creature sets its currentHp
\* to min(maxHp, currentHp + amount), and the quantity of that item in the
\* persistent item collection decreases by exactly 1.
C11_HealClampsAndConsumes ==
  [][IF /\ lastAction'.kind = "useItem"
        /\ error' = "none"
        /\ lastAction'.arg # Null
        /\ state.playerPokemon # Null
     THEN (/\ lastAction'.arg.effect = "heal"
           /\ state.playerPokemon.currentHp < state.playerPokemon.stats.hp)
          => /\ state'.playerPokemon.currentHp =
                  Min(state.playerPokemon.stats.hp,
                      state.playerPokemon.currentHp + lastAction'.arg.amount)
             /\ \A i \in 1..Len(items) :
                  items[i].id = lastAction'.arg.id
                    => items'[i].quantity = items[i].quantity - 1
     ELSE TRUE]_vars

\* C13: a heal or full-heal item used in battle on a creature whose currentHp
\* already equals maxHp logs a message, consumes no item and does not consume
\* the turn: the state stays PlayerTurn and no enemy attack is scheduled.
C13_FullHpHealCostsNothing ==
  [][IF /\ lastAction'.kind = "useItem"
        /\ error' = "none"
        /\ lastAction'.arg # Null
        /\ state.playerPokemon # Null
     THEN (/\ lastAction'.arg.effect \in {"heal", "fullheal"}
           /\ lastAction'.before = BATTLE_STATES.PLAYER_TURN
           /\ state.playerPokemon.currentHp = state.playerPokemon.stats.hp)
          => /\ Len(state'.battleLog) > Len(state.battleLog)
             /\ items' = items
             /\ state'.playerPokemon = state.playerPokemon
             /\ state'.battleState = BATTLE_STATES.PLAYER_TURN
             /\ timers' = timers
     ELSE TRUE]_vars

\* C14: a creature's currentHp goes from 0 to a positive value only by a
\* revive item or a level-up; a heal or full-heal item applied to a creature
\* with currentHp 0 leaves its HP at 0.
C14_OnlyReviveRaisesFainted ==
  [][/\ IF state.playerPokemon # Null /\ state'.playerPokemon # Null
        THEN (/\ state'.playerPokemon.id = state.playerPokemon.id
              /\ state.playerPokemon.currentHp = 0
              /\ state'.playerPokemon.currentHp > 0)
             => IF lastAction'.kind = "useItem" /\ lastAction'.arg # Null
                THEN lastAction'.arg.effect \in {"revive", "levelup"}
                ELSE FALSE
        ELSE TRUE
     /\ \A j \in 1..Len(rosterPokemon) :
          (rosterPokemon[j].currentHp = 0 /\ rosterPokemon'[j].currentHp > 0)
          => IF lastAction'.kind \in {"bagUseItem", "rosterUseItem"}
             THEN lastAction'.arg.item.effect \in {"revive", "levelup"}
             ELSE FALSE]_vars

\* C12: useItem with an item flagged not battle-usable appends a rejection
\* message to the log and nothing else: the battle state (PlayerTurn) stays,
\* no HP, stat or quantity changes, and no enemy attack is scheduled.
C12_NotBattleUsableOnlyLogs ==
  [][IF lastAction'.kind = "useItem" /\ lastAction'.arg # Null
     THEN ~lastAction'.arg.battleUsable
          => /\ state' = [state EXCEPT !.battleLog =
                            Append(@, Msg("cannot be used in battle!",
                                          lastAction'.arg.name, 0))]
             /\ rosterPokemon' = rosterPokemon
             /\ items' = items
             /\ timers' = timers
             /\ error' = "none"
     ELSE TRUE]_vars

\* C12 witness: an item that is not battle-usable was used in PlayerTurn
C12_Witness ==
  /\ lastAction.kind = "useItem"
  /\ lastAction.arg # Null
  /\ ~lastAction.arg.battleUsable
  /\ lastAction.before = BATTLE_STATES.PLAYER_TURN
  /\ state.battleState = BATTLE_STATES.PLAYER_TURN
  /\ state.battleLog[Len(state.battleLog)] =
       Msg("cannot be used in battle!", lastAction.arg.name, 0)

\* C15: useItem(revive, creature) of the roster context: with quantity 0 it is
\* rejected; on a creature with currentHp 0 it sets currentHp to
\* floor(maxHp * amount) and takes exactly 1 from the revive quantity; on a
\* creature with currentHp > 0 it returns an unsuccessful result, changes no
\* HP and consumes no item.
C15_ReviveOnlyFainted ==
  [][IF lastAction'.kind \in {"bagUseItem", "rosterUseItem"}
     THEN lastAction'.arg.item.effect = "revive"
          => \A i \in 1..Len(items), j \in 1..Len(rosterPokemon) :
               (/\ items[i].id = lastAction'.arg.item.id
                /\ rosterPokemon[j].id = lastAction'.arg.target)
               => IF items[i].quantity = 0
                  THEN /\ ~lastAction'.arg.success
                       /\ rosterPokemon' = rosterPokemon
                       /\ items' = items
                  ELSE IF rosterPokemon[j].currentHp = 0
                  THEN /\ lastAction'.arg.success
                       /\ rosterPokemon' =
                            [rosterPokemon EXCEPT ![j].currentHp =
                               (rosterPokemon[j].stats.hp * items[i].amount)
                                 \div 100]
                       /\ items' =
                            [items EXCEPT ![i].quantity = items[i].quantity - 1]
                  ELSE /\ lastAction'.arg.returned = "object"
                       /\ ~lastAction'.arg.success
                       /\ rosterPokemon' = rosterPokemon
                       /\ items' = items
     ELSE TRUE]_vars

\* C15 witness: a Revive taken from two has brought the fainted pikachu
\* (maxHp 35) back with 17 HP
C15_Witness ==
  /\ lastAction.kind = "bagUseItem"
  /\ lastAction.arg.item.effect = "revive"
  /\ lastAction.arg.success
  /\ lastAction.arg.target = 25
  /\ rosterPokemon[1].currentHp = 17
  /\ items[4].quantity = 1

\* C16: stat boosts are battle-scoped: when a battle in which a boost item was
\* used ends by endBattle or by the BATTLE_END of flee, the boosted creature's
\* stat in the persistent roster equals its value from before the boost.
C16_BoostEndsWithBattle ==
  [][lastAction'.kind \in {"BATTLE_END", "endBattle"}
     => \A j \in 1..Len(rosterPokemon') :
          /\ rosterPokemon'[j].attackBoostEndsAfterBattle
               => rosterPokemon'[j].stats.attack
                    = rosterPokemon'[j].attackBoostOriginal
          /\ rosterPokemon'[j].defenseBoostEndsAfterBattle
               => rosterPokemon'[j].stats.defense
                    = rosterPokemon'[j].defenseBoostOriginal]_vars

\* C17: changePokemon with the currently active creature, or with a creature
\* whose currentHp is 0, is rejected: active creature, battle state, turn
\* owner and log are unchanged and no enemy turn is scheduled.
C17_ChangeToActiveOrFaintedRejected ==
  [][IF /\ lastAction'.kind = "changePokemon"
        /\ lastAction'.arg # Null
        /\ state.playerPokemon # Null
        /\ lastAction'.before \in {BATTLE_STATES.PLAYER_TURN,
                                   BATTLE_STATES.CHANGING_POKEMON}
     THEN (\/ lastAction'.arg.currentHp = 0
           \/ lastAction'.arg.id = state.playerPokemon.id)
          => /\ state'.playerPokemon = state.playerPokemon
             /\ state'.battleState = state.battleState
             /\ state'.isPlayerTurn = state.isPlayerTurn
             /\ state'.battleLog = state.battleLog
             /\ timers' = timers
     ELSE TRUE]_vars

\* C18: changePokemon issued in PlayerTurn moves to EnemyTurn; issued in
\* ChangingCreature after the active creature fainted it moves to PlayerTurn
\* and schedules no enemy attack.
C18_ForcedSwitchIsFree ==
  [][IF lastAction'.kind = "changePokemon" /\ lastAction'.arg # Null
     THEN /\ lastAction'.before = BATTLE_STATES.PLAYER_TURN
               => state'.battleState = BATTLE_STATES.ENEMY_TURN
          /\ (/\ lastAction'.before = BATTLE_STATES.CHANGING_POKEMON
              /\ state.playerPokemon # Null
              /\ state.playerPokemon.currentHp = 0)
               => /\ state'.battleState = BATTLE_STATES.PLAYER_TURN
                  /\ timers' = timers
     ELSE TRUE]_vars

\* C19: after a battle ends (endBattle after Victory or Defeat, or the
\* BATTLE_END of flee) the roster currentHp of a creature that was active in
\* the battle equals its in-battle currentHp at the last HP-affecting action
\* on it; stated for the creature that is active when the battle ends, whose
\* in-battle currentHp is the one the reducer state holds at that moment.
C19_HpRoundTrip ==
  [][(/\ lastAction'.kind \in {"BATTLE_END", "endBattle"}
      /\ state.playerPokemon # Null)
     => \A j \in 1..Len(rosterPokemon') :
          rosterPokemon'[j].id = state.playerPokemon.id
            => rosterPokemon'[j].currentHp = state.playerPokemon.currentHp]_vars

\* C20: flee() in PlayerTurn moves the state to Fleeing and schedules
\* BATTLE_END; that BATTLE_END is dispatched and takes the reducer state to
\* Idle (a Battle page that is still mounted, opened by query string or with
\* the adventure record still in sessionStorage, then starts the next battle at
\* once); from the flee to the BATTLE_END that ends the battle (the
\* state is not Idle and a flee's BATTLE_END is pending) no experience, level,
\* currency or item quantity changes.
C20_FleeReachesIdle ==
  /\ [][/\ (lastAction'.kind = "flee"
            /\ lastAction'.before = BATTLE_STATES.PLAYER_TURN)
           => /\ state'.battleState = BATTLE_STATES.FLEEING
              /\ \E i \in 1..Len(timers') :
                   timers'[i].kind = "FLEE_BATTLE_END"
        /\ lastAction'.kind = "BATTLE_END"
           => /\ battleReducer(state, [type |-> "BATTLE_END"], Null).battleState
                   = BATTLE_STATES.IDLE
              /\ state'.playerPokemon = Null
              /\ state'.battleState =
                   IF /\ page = "battle"
                      /\ \/ route.mode = "query"
                         \/ sessionStorage.adventure # Null
                   THEN BATTLE_STATES.SELECT_POKEMON
                   ELSE BATTLE_STATES.IDLE
        /\ (\/ lastAction'.kind = "flee"
            \/ /\ state.battleState # BATTLE_STATES.IDLE
               /\ \E i \in 1..Len(timers) : timers[i].kind = "FLEE_BATTLE_END")
           => /\ currency' = currency
              /\ items' = items
              /\ \A j \in 1..Len(rosterPokemon) :
                   /\ rosterPokemon'[j].xp = rosterPokemon[j].xp
                   /\ rosterPokemon'[j].level = rosterPokemon[j].level]_vars
  /\ (lastAction.kind = "flee" /\ lastAction.before = BATTLE_STATES.PLAYER_TURN)
       ~> (lastAction.kind = "BATTLE_END")

\* C20 witness: the BATTLE_END of a flee has met the state Fleeing and left
\* the battle idle
C20_Witness ==
  /\ lastAction.kind = "BATTLE_END"
  /\ lastAction.before = BATTLE_STATES.FLEEING
  /\ state.battleState = BATTLE_STATES.IDLE
  /\ state.playerPokemon = Null
  /\ page = "adventures"

\* C21: a BATTLE_END dispatched in Victory, Defeat or Fleeing leaves the
\* reducer state Idle with no enemy, no active creature, an empty log, no
\* pending player or enemy move and no active item; a BATTLE_END dispatched in
\* any other state leaves the reducer state unchanged.
C21_BattleEndClearsBattleState ==
  [][lastAction'.kind \in {"BATTLE_END", "endBattle"}
       => \E r \in {battleReducer(state, [type |-> "BATTLE_END"], Null)} :
            IF state.battleState \in {BATTLE_STATES.VICTORY,
                                      BATTLE_STATES.DEFEAT,
                                      BATTLE_STATES.FLEEING}
            THEN /\ r.battleState = BATTLE_STATES.IDLE
                 /\ r.enemy = Null
                 /\ r.playerPokemon = Null
                 /\ r.battleLog = << >>
                 /\ r.playerMove = Null
                 /\ r.enemyMove = Null
                 /\ r.activeItem = Null
            ELSE r = state]_vars

\* C22: in every reachable state the opponent's and the active creature's
\* currentHp are integers with 0 <= currentHp <= stats.hp.
C22_HpWithinBounds ==
  /\ state.enemy # Null
       => /\ state.enemy.currentHp \in Int
          /\ 0 <= state.enemy.currentHp
          /\ state.enemy.currentHp <= state.enemy.stats.hp
  /\ state.playerPokemon # Null
       => /\ state.playerPokemon.currentHp \in Int
          /\ 0 <= state.playerPokemon.currentHp
          /\ state.playerPokemon.currentHp <= state.playerPokemon.stats.hp

\* C22 witness: a Potion of 20 HP has restored only the 10 HP that zubat was
\* missing, which leaves it at its maximum
C22_Witness ==
  /\ lastAction.kind = "useItem"
  /\ state.playerPokemon # Null
  /\ state.playerPokemon.id = 41
  /\ state.playerPokemon.currentHp = state.playerPokemon.stats.hp
  /\ Len(state.battleLog) > 0
  /\ state.battleLog[Len(state.battleLog)] = Msg("recovered HP!", "Zubat", 10)

\* C23: for an attacker, defender and move with all fields present
\* calculateDamage returns damage >= 1 when the effectiveness is greater than
\* 0 and damage = 0 when the effectiveness is 0.
C23_ImmuneMatchupZeroesDamage ==
  (/\ lastAction.kind = "calculateDamage"
   /\ lastAction.arg.attacker # Null
   /\ lastAction.arg.defender # Null
   /\ lastAction.arg.move # Null
   /\ lastAction.arg.attacker.level > 0
   /\ lastAction.arg.attacker.stats.attack > 0
   /\ lastAction.arg.defender.level > 0
   /\ lastAction.arg.defender.stats.defense > 0
   /\ lastAction.arg.move.type # ""
   /\ lastAction.arg.move.power > 0)
    => /\ lastAction.arg.result.effectiveness > 0
            => lastAction.arg.result.damage >= 1
       /\ lastAction.arg.result.effectiveness = 0
            => lastAction.arg.result.damage = 0

\* C30: when the attacker, the defender or the move is absent calculateDamage
\* returns the miss result (damage 0, not critical); for every other input,
\* also a defender without stats.defense and level or an attacker without
\* level, the returned damage is a finite integer >= 0.
C30_MalformedInputGivesFiniteDamage ==
  lastAction.kind = "calculateDamage"
    => IF \/ lastAction.arg.attacker = Null
          \/ lastAction.arg.defender = Null
          \/ lastAction.arg.move = Null
       THEN /\ lastAction.arg.result.damage = 0
            /\ ~lastAction.arg.result.isCritical
       ELSE /\ lastAction.arg.result.damage # NaN
            /\ lastAction.arg.result.damage \in Nat

\* C29: for every ordered pair of type strings getTypeEffectiveness returns
\* one of the multipliers 0, 0.5, 1, 2 (0, 1, 2, 4 doubled), returns 1 for a
\* pair the chart does not list, gives the same value whatever the letter
\* case, and is not symmetric: fire against grass is 2, grass against fire 0.5.
C29_EffectivenessTotal ==
  lastAction.kind = "getTypeEffectiveness"
    => /\ lastAction.arg.result \in {0, 1, 2, 4}
       /\ ~(/\ ToLowerCase(lastAction.arg.attackType) \in DOMAIN typeChart
            /\ ToLowerCase(lastAction.arg.defenderType)
                 \in DOMAIN typeChart[ToLowerCase(lastAction.arg.attackType)])
            => lastAction.arg.result = 2
       /\ lastAction.arg.result =
            getTypeEffectiveness(ToLowerCase(lastAction.arg.attackType),
                                 ToLowerCase(lastAction.arg.defenderType))
       /\ (/\ ToLowerCase(lastAction.arg.attackType) = "fire"
           /\ ToLowerCase(lastAction.arg.defenderType) = "grass")
            => lastAction.arg.result = 4
       /\ (/\ ToLowerCase(lastAction.arg.attackType) = "grass"
           /\ ToLowerCase(lastAction.arg.defenderType) = "fire")
            => lastAction.arg.result = 1

\* C29 witness: fire against grass, both written in another letter case, is
\* super effective
C29_Witness ==
  /\ lastAction.kind = "getTypeEffectiveness"
  /\ lastAction.arg.attackType = "Fire"
  /\ lastAction.arg.defenderType = "GRASS"
  /\ lastAction.arg.result = 4

\* C24: after the victory reward is applied to a creature below the level cap
\* its stored experience is below the threshold of its new level:
\* xp < level * 100.
C24_NoUnspentLevelUp ==
  [][lastAction'.kind = "victoryReward"
       => \A j \in 1..Len(rosterPokemon) :
            (/\ rosterPokemon[j].id = lastAction'.arg.id
             /\ rosterPokemon[j].level < 25)
              => rosterPokemon'[j].xp < rosterPokemon'[j].level * 100]_vars

\* C25: no roster creature's level exceeds 25, and a level that is present is
\* at least 1 (a creature added by addToRoster carries no level yet, written
\* 0 here).
C25_LevelCap ==
  \A j \in 1..Len(rosterPokemon) :
    /\ rosterPokemon[j].level \in 0..25

\* C26: the balance is a non-negative integer in every reachable state, a
\* credit of r >= 0 (a victory reward or updateCurrency) raises it by exactly
\* r, and buyItem takes the price only when the balance covers it.
C26_CurrencyNeverNegative ==
  /\ [](currency \in Nat)
  /\ [][/\ lastAction'.kind = "victoryReward"
             => currency' = currency + lastAction'.arg.money
        /\ (lastAction'.kind = "updateCurrency" /\ lastAction'.arg.amount >= 0)
             => currency' = currency + lastAction'.arg.amount
        /\ lastAction'.kind = "buyItem"
             => IF lastAction'.arg.returned
                THEN \E i \in 1..Len(items) :
                       /\ items[i].id = lastAction'.arg.id
                       /\ currency >= items[i].price
                       /\ currency' = currency - items[i].price
                ELSE currency' = currency]_vars

\* C26 witness: updateCurrency(-150) has met a balance below 150 and left 0
C26_Witness ==
  /\ lastAction.kind = "updateCurrency"
  /\ lastAction.arg.amount = 0 - 150
  /\ actions = 1
  /\ currency = 0

\* C27: the roster never holds more than 6 creatures and never two creatures
\* with the same id.
C27_RosterBounded ==
  /\ Len(rosterPokemon) <= 6
  /\ \A i, j \in 1..Len(rosterPokemon) :
       i # j => rosterPokemon[i].id # rosterPokemon[j].id

\* C28: no item quantity is negative, and useItem in a battle (in PlayerTurn,
\* with an opponent and an active creature) with an item whose quantity is 0
\* changes no creature, neither the active one nor one of the roster.
C28_EmptyItemHasNoEffect ==
  /\ [](\A i \in 1..Len(items) : items[i].quantity >= 0)
  /\ [][(/\ lastAction'.kind = "useItem"
         /\ lastAction'.before = BATTLE_STATES.PLAYER_TURN
         /\ state.enemy # Null
         /\ state.playerPokemon # Null
         /\ lastAction'.arg # Null
         /\ lastAction'.arg.quantity = 0)
          => /\ rosterPokemon' = rosterPokemon
             /\ state'.playerPokemon = state.playerPokemon]_vars

\* C31: calculateXp and calculateCurrency return a non-negative integer for
\* every opponent and boss flag, 0 for an absent opponent, and for a boss at
\* least twice what any draw gives for a non-boss of the same level.
C31_RewardsNonNegative ==
  lastAction.kind = "calculateRewards"
    => /\ lastAction.arg.xp \in Nat
       /\ lastAction.arg.currency \in Nat
       /\ lastAction.arg.xpTiered \in Nat
       /\ lastAction.arg.currencyTiered \in Nat
       /\ lastAction.arg.enemyPokemon = Null
            => /\ lastAction.arg.xp = 0
               /\ lastAction.arg.currency = 0
               /\ lastAction.arg.xpTiered = 0
               /\ lastAction.arg.currencyTiered = 0
       /\ (/\ lastAction.arg.enemyPokemon # Null
           /\ lastAction.arg.isBoss)
            => /\ \A rnd \in RewardDraws :
                    /\ lastAction.arg.xp >=
                         2 * calculateXp(
                               [lastAction.arg.enemyPokemon
                                  EXCEPT !.isBoss = FALSE], FALSE, rnd)
                    /\ lastAction.arg.currency >=
                         2 * calculateCurrency(
                               [lastAction.arg.enemyPokemon
                                  EXCEPT !.isBoss = FALSE], FALSE, rnd)
               /\ lastAction.arg.xpTiered >=
                    2 * calculateXpTiered(lastAction.arg.enemyPokemon, FALSE)
               /\ lastAction.arg.currencyTiered >=
                    2 * calculateCurrencyTiered(lastAction.arg.enemyPokemon,
                                                FALSE)

\* C31 witness: a boss of level 25 at the lowest draws gives 450 experience
\* and 1500 currency
C31_Witness ==
  /\ lastAction.kind = "calculateRewards"
  /\ lastAction.arg.enemyPokemon # Null
  /\ lastAction.arg.enemyPokemon.level = 25
  /\ lastAction.arg.isBoss
  /\ lastAction.arg.xp = 450
  /\ lastAction.arg.currency = 1500

\* C32: once the battle state is Victory or Defeat, no step other than the
\* BATTLE_END of endBattle or flee changes the battle state or the currentHp
\* of the opponent or of the active creature.
C32_TerminalStatesAbsorbing ==
  [][(/\ state.battleState \in {BATTLE_STATES.VICTORY, BATTLE_STATES.DEFEAT}
      /\ lastAction'.kind \notin {"BATTLE_END", "endBattle"})
       => /\ state'.battleState = state.battleState
          /\ (state'.enemy = Null) = (state.enemy = Null)
          /\ state.enemy # Null
               => state'.enemy.currentHp = state.enemy.currentHp
          /\ (state'.playerPokemon = Null) = (state.playerPokemon = Null)
          /\ state.playerPokemon # Null
               => state'.playerPokemon.currentHp
                    = state.playerPokemon.currentHp]_vars

\* ------------------------------------------------------------------- C33
\* the session of the BattleProvider whose victory effect calls handleVictory
InitRewards ==
  /\ rosterPokemon \in InitialRosters
  /\ items \in InitialItems
  /\ currency = 100
  /\ state = [initialBattleState EXCEPT !.playerRoster = rosterPokemon,
                                        !.items = items]
  /\ timers = << >>
  /\ page = "adventures"
  /\ showRoster = FALSE
  /\ route = [mode |-> "adventure", enemy |-> Null, battle |-> 0]
  /\ error = "none"
  /\ actions = 0
  /\ lastAction = Last("init", BATTLE_STATES.IDLE, Null)
  /\ hitsSinceEnemy = 0
  /\ sessionStorage = [adventure |-> Null, victory |-> {}]
  /\ provider = "first"
  /\ rewardsApplied = 0

SpecRewards == InitRewards /\ [][Next]_vars

\* C33: between one START_BATTLE and the following BATTLE_END the victory's
\* experience and currency are credited to the roster and the balance at most
\* once, whatever renders, ATTACK_COMPLETE events or re-entries into Victory
\* occur.
C33_RewardsAtMostOncePerBattle == rewardsApplied <= 1

\* ------------------------------------------------------------------- C34
\* C34: every enemy turn is resolved: when the battle is in EnemyTurn with no
\* flee pending and the timers fire, the battle state eventually becomes
\* PlayerTurn, ChangingCreature or Defeat (the enemy's damage applied), unless
\* the player flees or an exception has stopped the session.
C34_EnemyTurnResolved ==
  (/\ state.battleState = BATTLE_STATES.ENEMY_TURN
   /\ error = "none"
   /\ \A i \in 1..Len(timers) : timers[i].kind # "FLEE_BATTLE_END")
    ~> (\/ state.battleState \in {BATTLE_STATES.PLAYER_TURN,
                                  BATTLE_STATES.CHANGING_POKEMON,
                                  BATTLE_STATES.DEFEAT}
        \/ lastAction.kind = "flee"
        \/ error # "none")

\* ------------------------------------------------------------------- C35
\* C35: every battle can finish: from Victory, Defeat and Fleeing, when the
\* timers fire, the battle is eventually ended (BATTLE_END is dispatched and
\* the state is Idle until the page starts the next battle), unless an
\* exception has stopped the session.
C35_TerminalStatesReachIdle ==
  (state.battleState \in {BATTLE_STATES.VICTORY, BATTLE_STATES.DEFEAT,
                          BATTLE_STATES.FLEEING} /\ error = "none")
    ~> \/ state.battleState = BATTLE_STATES.IDLE
       \/ lastAction.kind \in {"BATTLE_END", "endBattle"}
       \/ error # "none"

\* ------------------------------------------------------------------- C36
\* the quantity of the item id in the collection its, 0 when it is not there
QuantityOf(its, id) ==
  IF \E i \in 1..Len(its) : its[i].id = id
  THEN its[CHOOSE i \in 1..Len(its) : its[i].id = id].quantity
  ELSE 0

\* C36: when the boss of an adventure's final battle is defeated, every item
\* reward of generateAdventureRewards raises the quantity of its item by its
\* amount, and the base currency and the bonus currency are both added to the
\* balance.
C36_AdventureRewardsAllCredited ==
  [][lastAction'.kind = "adventureRewards"
       => LET arg == lastAction'.arg
              rewards == generateAdventureRewards(arg.xp, arg.money,
                                                  arg.adventureType)
          IN /\ \A k \in 1..Len(rewards) :
                  (/\ rewards[k].type = "item"
                   /\ \E i \in 1..Len(items) : items[i].id = rewards[k].id)
                    => QuantityOf(items', rewards[k].id)
                         = QuantityOf(items, rewards[k].id) + rewards[k].amount
             /\ currency' = currency + arg.money + (3 * arg.money) \div 10]_vars

\* ------------------------------------------------------------------- C37
\* what a call of buyItem that returned true adds: its price to the amount
\* paid, one to the quantity bought of its item
Paid(call) == IF call.returned THEN call.price ELSE 0

Bought(call, id) == IF call.returned /\ call.id = id THEN 1 ELSE 0

\* C37: buyItem is all-or-nothing, also for two calls issued back to back
\* before the provider renders again: every call that returns true lowers the
\* balance by the price and raises the quantity of its item by 1, a call that
\* returns false changes nothing, and no call succeeds on a balance below the
\* price.
C37_BuyItemAllOrNothing ==
  [][/\ lastAction'.kind = "buyItem"
          => IF lastAction'.arg.returned
             THEN \E i \in 1..Len(items) :
                    /\ items[i].id = lastAction'.arg.id
                    /\ currency >= items[i].price
                    /\ currency' = currency - items[i].price
                    /\ items' = [items EXCEPT ![i].quantity = @ + 1]
             ELSE currency' = currency /\ items' = items
     /\ lastAction'.kind = "buyItemTwice"
          => LET first == lastAction'.arg.first
                 second == lastAction'.arg.second
             IN /\ currency >= Paid(first) + Paid(second)
                /\ currency' = currency - Paid(first) - Paid(second)
                /\ \A i \in 1..Len(items) :
                     QuantityOf(items', items[i].id)
                       = items[i].quantity + Bought(first, items[i].id)
                           + Bought(second, items[i].id)]_vars

\* ------------------------------------------------------------------- C38
\* C38: in a battle of an adventure the record in sessionStorage stands at the
\* battle being fought or, after its Victory, exactly one battle further, and
\* never skips a battle; Defeat and Fleeing remove the record.
C38_AdventureAdvancesOneBattle ==
  (/\ page = "battle"
   /\ route.mode = "adventure"
   /\ error = "none")
    => /\ sessionStorage.adventure # Null
            => /\ sessionStorage.adventure.currentBattle
                    \in {route.battle, route.battle + 1}
               /\ state.battleState = BATTLE_STATES.VICTORY
                    => sessionStorage.adventure.currentBattle = route.battle + 1
       /\ state.battleState \in {BATTLE_STATES.DEFEAT, BATTLE_STATES.FLEEING}
            => sessionStorage.adventure = Null

\* ------------------------------------------------------------------- C39
\* the sequence old is an initial part of the sequence new
IsPrefix(old, new) ==
  /\ Len(old) <= Len(new)
  /\ \A i \in 1..Len(old) : new[i] = old[i]

\* C39: the battle log is append-only within a battle: every step keeps the
\* old log as a prefix of the new one, except START_BATTLE, which makes the
\* log the single encounter line, and BATTLE_END, which empties it (and after
\* which the page may start the next battle).
C39_BattleLogAppendOnly ==
  [][\/ /\ lastAction'.kind \notin {"startBattle", "BATTLE_END", "endBattle"}
        /\ IsPrefix(state.battleLog, state'.battleLog)
     \/ /\ lastAction'.kind = "startBattle"
        /\ \/ state'.battleLog = state.battleLog
           \/ /\ Len(state'.battleLog) = 1
              /\ state'.battleLog[1].t = "A wild appeared!"
     \/ /\ lastAction'.kind \in {"BATTLE_END", "endBattle"}
        /\ \/ state'.battleLog = << >>
           \/ /\ Len(state'.battleLog) = 1
              /\ state'.battleLog[1].t = "A wild appeared!"]_vars

\* the enemy's attack has been resolved in a battle whose log has grown to
\* six lines or more since START_BATTLE
C39_Witness ==
  /\ lastAction.kind = "ENEMY_ATTACK_COMPLETE"
  /\ Len(state.battleLog) >= 6
  /\ state.battleLog[1].t = "A wild appeared!"

\* ------------------------------------------------------------------- C40
\* C40: the power of the move generateDefaultMove returns never decreases with
\* the level: for every element, for the player's and the opponent's moves and
\* for all levels 1 <= a < b <= 50, also across the tier boundaries 5/6, 15/16
\* and 30/31.
C40_MovePowerMonotone ==
  lastAction.kind = "generateDefaultMove"
    => LET arg == lastAction.arg
       IN \A b \in MoveLevels :
            arg.level < b
              => /\ arg.scaled.power
                      <= generateDefaultMoveScaled(arg.type, b,
                                                   arg.isEnemy).power
                 /\ arg.tiered.power
                      <= generateDefaultMoveTiered(arg.type, b,
                                                   arg.isEnemy).power

====
